---------------------------- MODULE Spec2Model ----------------------------
(***************************************************************************)
(* State-machine model of the knowledge-graph backend:                     *)
(*   - the Redis client's circuit breaker   (shared/database/redis.py)     *)
(*   - the CacheManager's circuit breaker   (shared/utils/cache.py)        *)
(*   - GraphGenerator                       (graph_service/services)       *)
(*   - Node / Relationship optimistic updates (graph_service/models)       *)
(*   - Neo4jConnection sessions and retries (shared/database/neo4j.py)     *)
(*   - the graph algorithms      (graph_service/utils/graph_algorithms.py) *)
(*   - Artwork.update_metadata      (graph_service/models/artwork.py)      *)
(* Python's asyncio is cooperative: the code between two awaits runs as    *)
(* one atomic step, so every action below is one such stretch of code.     *)
(***************************************************************************)
EXTENDS Integers, Sequences, FiniteSets, TLC

(***************************************************************************)
(* Bounds of the model.                                                    *)
(***************************************************************************)
TimeStep == 30          \* seconds the clock advances per Tick
MaxTime == 120          \* the clock stops advancing here
MaxRedisCalls == 7      \* RedisClient operations started in one run
MaxCacheCalls == 2      \* CacheManager operations started in one run
MaxGenCalls == 3        \* generate_artwork_graph requests made in one run
MaxNodeCalls == 4       \* Node.update calls made in one run
MaxRelCalls == 4        \* Relationship.update calls made in one run
MaxNeoCalls == 3        \* Neo4jConnection.execute_query calls made in one run
MaxRetryCount == 6      \* the largest retry_count a caller passes
MaxAlgoCalls == 2       \* graph-algorithm calls made in one run
MaxLifeCalls == 3       \* Relationship create/update/delete calls in one run
MaxArtCalls == 4        \* Artwork.update_metadata calls made in one run
MaxLimit == 2           \* find_similar_artworks' limit ranges over 1..MaxLimit
MaxReqDepth == 2        \* the requested depth ranges over 0..MaxReqDepth
max_depth == 1          \* config['max_depth'] handed to GraphGenerator
DEFAULT_BATCH_SIZE == 2 \* graph_generator.py has 50; scaled to the small store
MAX_GRAPH_SIZE == 3     \* graph_generator.py has 1000; scaled to the small store
RATE_LIMIT_MAX_REQUESTS == 2 \* redis.py has 1000; scaled to the few calls

\* the concurrent callers (coroutines) of a client
Callers == {"c1", "c2"}

(***************************************************************************)
(* Program constants.                                                      *)
(***************************************************************************)
failure_threshold == 5  \* redis.py CircuitBreaker.__init__ default
reset_timeout == 60     \* redis.py CircuitBreaker.__init__ default
RATE_LIMIT_WINDOW == 60  \* redis.py
ThresholdNum == 1       \* cache.py CIRCUIT_BREAKER_THRESHOLD = 0.5 = 1/2
ThresholdDen == 2
CIRCUIT_BREAKER_INTERVAL == 30
MAX_RETRY_ATTEMPTS == 3 \* cache.py, tenacity stop_after_attempt
TEST_BREAKER_THRESHOLD == 5 \* test_cache.py CIRCUIT_BREAKER_THRESHOLD
CIRCUIT_BREAKER_THRESHOLD == 5  \* graph_generator.py
GEN_MAX_RETRY_ATTEMPTS == 3     \* graph_generator.py MAX_RETRY_ATTEMPTS
DEFAULT_MAX_POOL_SIZE == 50     \* shared/database/neo4j.py
DEFAULT_MAX_RETRY_TIME == 30    \* shared/database/neo4j.py, seconds
MAX_RETRY_COUNT == 3            \* shared/database/neo4j.py
QUERY_LIMIT == 100              \* graph_algorithms.py, LIMIT of the query

VARIABLES
    component,          \* which client the callers of this run drive
    now,                \* time.time(), in seconds
    redis_cb,           \* RedisClient._circuit_breaker
    redis_pc,           \* per caller: where its RedisClient call stands
    redis_calls,        \* RedisClient operations started so far
    redis_rate_limits,  \* _monitoring_config["rate_limits"]: id -> timestamps
    redis_req,          \* per caller: the request id of its call
    cache_cb,           \* CacheManager._circuit_breaker
    cache_pc,           \* per caller: where its CacheManager call stands
    cache_req,          \* per caller: the call's operation, flag and attempt
    cache_calls,        \* CacheManager operations started so far
    cache_streak,       \* failures recorded since the last recorded success
    cache_half,         \* the is_open property closed the breaker on a read
                        \* and no outcome was recorded since (half-open)
    store_rels,         \* the relationships held by the graph store
    gen_failure_count,  \* failure_count of generate_artwork_graph's breaker
    gen_since_failure,  \* seconds since that breaker last counted a failure
    gen_cache,          \* the graph cache: key -> cached graph, or NoEntry
    gen,                \* the generate_artwork_graph request in service
    gen_prev,           \* the last request that returned a graph
    gen_calls,          \* requests made so far
    node_store,         \* the stored node: version and properties
    node_mem,           \* the in-memory Node objects: version and properties
    node_obj,           \* per caller: the Node object it holds
    node_pc,            \* per caller: where its Node.update call stands
    node_params,        \* per caller: the parameters its query was built with
    node_calls,         \* Node.update calls made so far
    rel_store,          \* the stored relationship: version and properties
    rel_mem,            \* the in-memory Relationship objects
    rel_obj,            \* per caller: the Relationship object it holds
    rel_pc,             \* per caller: where its Relationship.update call stands
    rel_params,         \* per caller: the parameters its query was built with
    rel_calls,          \* Relationship.update calls made so far
    neo_metrics,        \* Neo4jConnection._connection_metrics
    neo,                \* per caller: its execute_query call
    neo_calls,          \* execute_query calls made so far
    algo_store,         \* per artwork: the ids of the nodes related to it
    algo,               \* the graph-algorithm call in service
    algo_calls,         \* graph-algorithm calls made so far
    life_rel,           \* the in-memory Relationship the callers share
    life_store,         \* the relationships create() has written to the store
    life_pc,            \* per caller: where its Relationship call stands
    life_params,        \* per caller: the parameters its query was built with
    life_calls,         \* create, update and delete calls made so far
    art_store,          \* the stored artwork node: version and properties
    art_mem,            \* per caller: its in-memory Artwork object
    art_pc,             \* per caller: where its update_metadata call stands
    art_params,         \* per caller: the parameters its query was built with
    art_calls           \* update_metadata calls made so far

redis_vars == <<redis_cb, redis_pc, redis_calls, redis_rate_limits,
               redis_req>>

cache_vars == <<cache_cb, cache_pc, cache_req, cache_calls, cache_streak,
                cache_half>>

gen_vars == <<store_rels, gen_failure_count, gen_since_failure, gen_cache, gen,
              gen_prev, gen_calls>>

node_vars == <<node_store, node_mem, node_obj, node_pc, node_params,
               node_calls>>

rel_vars == <<rel_store, rel_mem, rel_obj, rel_pc, rel_params, rel_calls>>

neo_vars == <<neo_metrics, neo, neo_calls>>

algo_vars == <<algo_store, algo, algo_calls>>

life_vars == <<life_rel, life_store, life_pc, life_params, life_calls>>

art_vars == <<art_store, art_mem, art_pc, art_params, art_calls>>

vars == <<component, now, redis_vars, cache_vars, gen_vars, node_vars,
          rel_vars, neo_vars, algo_vars, life_vars, art_vars>>

\* what an action of one component leaves alone
not_redis_vars == <<cache_vars, gen_vars, node_vars, rel_vars, neo_vars,
                    algo_vars, life_vars, art_vars>>

not_cache_vars == <<redis_vars, gen_vars, node_vars, rel_vars, neo_vars,
                    algo_vars, life_vars, art_vars>>

not_gen_vars == <<component, redis_vars, cache_vars, node_vars, rel_vars,
                  neo_vars, algo_vars, life_vars, art_vars>>

not_node_vars == <<component, now, redis_vars, cache_vars, gen_vars,
                   rel_vars, neo_vars, algo_vars, life_vars, art_vars>>

not_rel_vars == <<component, now, redis_vars, cache_vars, gen_vars,
                  node_vars, neo_vars, algo_vars, life_vars, art_vars>>

not_neo_vars == <<component, now, redis_vars, cache_vars, gen_vars,
                  node_vars, rel_vars, algo_vars, life_vars, art_vars>>

not_algo_vars == <<component, now, redis_vars, cache_vars, gen_vars,
                   node_vars, rel_vars, neo_vars, life_vars, art_vars>>

not_life_vars == <<component, now, redis_vars, cache_vars, gen_vars,
                   node_vars, rel_vars, neo_vars, algo_vars, art_vars>>

not_art_vars == <<component, now, redis_vars, cache_vars, gen_vars,
                  node_vars, rel_vars, neo_vars, algo_vars, life_vars>>

(***************************************************************************)
(* redis.py: class CircuitBreaker                                          *)
(***************************************************************************)
RedisBreakerInit == [failures |-> 0, is_open |-> FALSE, last_failure |-> 0]

failure(cb, t) ==
    LET n == cb.failures + 1
    IN  [failures |-> n,
         last_failure |-> t,
         is_open |-> IF n >= failure_threshold THEN TRUE ELSE cb.is_open]

success(cb) == [cb EXCEPT !.failures = 0, !.is_open = FALSE]

half_open(cb) == [cb EXCEPT !.is_open = FALSE]

(***************************************************************************)
(* redis.py: circuit_breaker decorator, the part before `await func`.      *)
(* RedisRejects: the wrapper raises "Circuit breaker is open".             *)
(* RedisAdmit: the breaker as the wrapper leaves it when it goes on to     *)
(* call the wrapped operation.                                             *)
(***************************************************************************)
\* (variant: the timeout counts as elapsed already when it is just reached)
RedisTimeoutElapsedAtLimit(cb, t) == t - cb.last_failure >= reset_timeout

RedisTimeoutElapsed(cb, t) == t - cb.last_failure > reset_timeout

RedisRejects(cb, t) == cb.is_open /\ ~RedisTimeoutElapsed(cb, t)

RedisAdmit(cb, t) ==
    IF cb.is_open /\ RedisTimeoutElapsed(cb, t) THEN half_open(cb) ELSE cb

(***************************************************************************)
(* redis.py: the rate_limit decorator and _check_rate_limit.  A map entry  *)
(* with no timestamps stands for an absent key.                            *)
(***************************************************************************)
RequestIds == {"default", "r1"}

NoRateLimits == [rid \in RequestIds |-> <<>>]

\* the request_id a caller passes: c1 always leaves it out ('default'),
\* c2 passes its own id or leaves it out
RequestIdsOf(c) == IF c = "c1" THEN {"default"} ELSE RequestIds

\* the timestamps of ts later than window_start, in order
RECURSIVE Recent(_, _)
Recent(ts, window_start) ==
    IF ts = <<>> THEN <<>>
    ELSE IF Head(ts) > window_start
         THEN <<Head(ts)>> \o Recent(Tail(ts), window_start)
         ELSE Recent(Tail(ts), window_start)

\* lines 166-170: ids whose last request left the window are dropped
CleanedUp(rate_limits, t) ==
    [rid \in RequestIds |->
        IF /\ rate_limits[rid] # <<>>
           /\ rate_limits[rid][Len(rate_limits[rid])] > t - RATE_LIMIT_WINDOW
        THEN rate_limits[rid] ELSE <<>>]

\* lines 173-174: the id's requests inside the window
RequestsInWindow(rate_limits, request_id, t) ==
    Recent(CleanedUp(rate_limits, t)[request_id], t - RATE_LIMIT_WINDOW)

\* _check_rate_limit's result
WithinRateLimit(rate_limits, request_id, t) ==
    Len(RequestsInWindow(rate_limits, request_id, t)) < RATE_LIMIT_MAX_REQUESTS

\* _monitoring_config["rate_limits"] as _check_rate_limit leaves it
RateLimitsAfter(rate_limits, request_id, t) ==
    IF WithinRateLimit(rate_limits, request_id, t)
    THEN [CleanedUp(rate_limits, t) EXCEPT ![request_id] =
             Append(RequestsInWindow(rate_limits, request_id, t), t)]
    ELSE CleanedUp(rate_limits, t)

(***************************************************************************)
(* A caller creates the coroutine of get/set/delete/flush (asyncio.gather  *)
(* and create_task schedule it; its body has not run yet).                 *)
(***************************************************************************)
RedisInvoke(c, request_id) ==
    /\ component = "redis"
    /\ redis_pc[c] \notin {"called", "awaiting", "probing"}
    /\ redis_calls < MaxRedisCalls
    /\ redis_calls' = redis_calls + 1
    /\ redis_pc' = [redis_pc EXCEPT ![c] = "called"]
    /\ redis_req' = [redis_req EXCEPT ![c] = request_id]
    /\ UNCHANGED <<component, now, redis_cb, redis_rate_limits,
                   not_redis_vars>>

(***************************************************************************)
(* The wrappers run up to the first await: the circuit_breaker wrapper     *)
(* either raises at once or calls the rate_limit wrapper, which raises     *)
(* "Rate limit exceeded" into the circuit_breaker wrapper's except clause  *)
(* or goes on to the operation, and the Redis operation is in flight.      *)
(* "probing" marks a call admitted while the failure count is at or over   *)
(* the threshold, that is, after half_open() and before any success.       *)
(***************************************************************************)
RedisEnter(c) ==
    /\ component = "redis"
    /\ redis_pc[c] = "called"
    /\ IF RedisRejects(redis_cb, now)
       THEN /\ redis_pc' = [redis_pc EXCEPT ![c] = "circuit_open"]
            /\ redis_cb' = redis_cb
            /\ UNCHANGED redis_rate_limits
       ELSE /\ redis_rate_limits' =
                   RateLimitsAfter(redis_rate_limits, redis_req[c], now)
            /\ IF WithinRateLimit(redis_rate_limits, redis_req[c], now)
               THEN /\ redis_cb' = RedisAdmit(redis_cb, now)
                    /\ redis_pc' = [redis_pc EXCEPT ![c] =
                           IF redis_cb.failures >= failure_threshold
                           THEN "probing" ELSE "awaiting"]
               ELSE /\ redis_cb' = failure(RedisAdmit(redis_cb, now), now)
                    /\ redis_pc' = [redis_pc EXCEPT ![c] = "rate_limited"]
    /\ UNCHANGED <<component, now, redis_calls, redis_req, not_redis_vars>>

(***************************************************************************)
(* The awaited Redis operation completes: lines 43-48 of the wrapper.      *)
(***************************************************************************)
RedisReturn(c, ok) ==
    /\ component = "redis"
    /\ redis_pc[c] \in {"awaiting", "probing"}
    /\ IF ok
       THEN /\ redis_cb' = success(redis_cb)
            /\ redis_pc' = [redis_pc EXCEPT ![c] = "returned"]
       ELSE /\ redis_cb' = failure(redis_cb, now)
            /\ redis_pc' = [redis_pc EXCEPT ![c] = "raised"]
    /\ UNCHANGED <<component, now, redis_calls, redis_rate_limits, redis_req,
                   not_redis_vars>>

RedisStart ==
    \E c \in Callers : \E rid \in RequestIdsOf(c) : RedisInvoke(c, rid)

RedisWrapper == \E c \in Callers : RedisEnter(c)

RedisOk == \E c \in Callers : RedisReturn(c, TRUE)

RedisFail == \E c \in Callers : RedisReturn(c, FALSE)

(***************************************************************************)
(* cache.py: class CircuitBreaker.  The threshold 0.5 is kept as the       *)
(* fraction ThresholdNum / ThresholdDen; failures / total_requests > 0.5   *)
(* is compared exactly by cross-multiplying.                               *)
(***************************************************************************)
CacheBreakerInit ==
    [failures |-> 0, total_requests |-> 0, last_failure_time |-> 0,
     is_open |-> FALSE]

IntervalElapsed(cb, t) == t - cb.last_failure_time > CIRCUIT_BREAKER_INTERVAL

\* the is_open property: the breaker after the read, and the value read
is_open_after(cb, t) ==
    IF cb.is_open /\ IntervalElapsed(cb, t)
    THEN [cb EXCEPT !.is_open = FALSE] ELSE cb

is_open(cb, t) == is_open_after(cb, t).is_open

update_state(cb) ==
    IF cb.total_requests > 0
       /\ cb.failures * ThresholdDen > ThresholdNum * cb.total_requests
    THEN [cb EXCEPT !.is_open = TRUE] ELSE cb

record_success(cb) ==
    update_state([cb EXCEPT !.total_requests = @ + 1])

record_failure(cb, t) ==
    update_state([cb EXCEPT !.failures = @ + 1,
                            !.total_requests = @ + 1,
                            !.last_failure_time = t])

(***************************************************************************)
(* cache.py: CacheManager.  The client behind it is a RedisClient; here    *)
(* every result a client call can have is allowed: a value, an             *)
(* undecodable value, nothing, False (set), or an exception.               *)
(***************************************************************************)
CacheInFlight == {"called", "awaiting_get", "awaiting_set", "retry_wait"}

\* no call frame: the caller is idle or holds the outcome of its last call
NoReq == [op |-> "get", use_circuit_breaker |-> TRUE, attempt |-> 0,
          oversized |-> FALSE]

\* the request record once the call stands at pc: dropped when it has ended
ReqAt(req, pc) == IF pc \in CacheInFlight THEN req ELSE NoReq

\* oversized: json.dumps(data) is longer than the largest value the cache
\* is meant to take (test_cache.py MAX_VALUE_SIZE)
CacheInvoke(c, op, ucb, oversized) ==
    /\ component = "cache"
    /\ cache_pc[c] \notin CacheInFlight
    /\ cache_calls < MaxCacheCalls
    /\ cache_calls' = cache_calls + 1
    /\ cache_pc' = [cache_pc EXCEPT ![c] = "called"]
    /\ cache_req' = [cache_req EXCEPT ![c] =
                        [op |-> op, use_circuit_breaker |-> ucb, attempt |-> 0,
                         oversized |-> oversized]]
    /\ UNCHANGED <<not_cache_vars, component, now, cache_cb, cache_streak, cache_half>>

\* tenacity @retry on get_cached_data: after a raised attempt, wait and
\* run the body again, until MAX_RETRY_ATTEMPTS attempts were made
AfterRaise(attempt) ==
    IF attempt < MAX_RETRY_ATTEMPTS THEN "retry_wait" ELSE "retry_error"

\* the breaker as the guard of get/set_cached_data leaves it:
\* `use_circuit_breaker and self._circuit_breaker.is_open` reads the
\* property only when the flag is set
GuardBreaker(ucb, cb, t) == IF ucb THEN is_open_after(cb, t) ELSE cb

GuardRejects(ucb, cb, t) == ucb /\ is_open(cb, t)

\* the half-open marker: set when the property read closes an open
\* breaker, kept until the next recorded outcome
HalfAfterGuard(ucb, cb, t) ==
    IF ucb /\ cb.is_open /\ ~is_open(cb, t) THEN TRUE ELSE cache_half

(***************************************************************************)
(* One attempt of get_cached_data up to `await self._client.get(...)`.     *)
(***************************************************************************)
GetAttempt(c, n) ==
    LET ucb == cache_req[c].use_circuit_breaker IN
    /\ cache_cb' = GuardBreaker(ucb, cache_cb, now)
    /\ cache_half' = HalfAfterGuard(ucb, cache_cb, now)
    /\ cache_pc' = [cache_pc EXCEPT ![c] =
           IF GuardRejects(ucb, cache_cb, now)
           THEN AfterRaise(n) ELSE "awaiting_get"]
    /\ cache_req' = [cache_req EXCEPT ![c] =
                        ReqAt([@ EXCEPT !.attempt = n], cache_pc'[c])]
    /\ UNCHANGED <<not_cache_vars, component, now, cache_calls, cache_streak>>

CacheGetEnter(c) ==
    /\ component = "cache"
    /\ cache_pc[c] = "called"
    /\ cache_req[c].op = "get"
    /\ GetAttempt(c, 1)

CacheGetRetry(c) ==
    /\ component = "cache"
    /\ cache_pc[c] = "retry_wait"
    /\ GetAttempt(c, cache_req[c].attempt + 1)

(***************************************************************************)
(* client.get completed: lines 147-161 of get_cached_data.                 *)
(*   "data":        a value json.loads decodes: record_success, return it  *)
(*   "undecodable": record_success, then json.loads raises inside the try: *)
(*                  record_failure and raise                               *)
(*   "none":        a miss: nothing recorded                               *)
(*   "error":       the client raised: record_failure and raise            *)
(***************************************************************************)
GetOutcomes == {"data", "undecodable", "none", "error"}

CacheGetReturn(c, outcome) ==
    /\ component = "cache"
    /\ cache_pc[c] = "awaiting_get"
    /\ CASE outcome = "data" ->
              /\ cache_cb' = record_success(cache_cb)
              /\ cache_pc' = [cache_pc EXCEPT ![c] = "hit"]
              /\ cache_streak' = 0
              /\ cache_half' = FALSE
         [] outcome = "undecodable" ->
              /\ cache_cb' = record_failure(record_success(cache_cb), now)
              /\ cache_pc' = [cache_pc EXCEPT ![c] = AfterRaise(cache_req[c].attempt)]
              /\ cache_streak' = 1
              /\ cache_half' = FALSE
         [] outcome = "none" ->
              /\ cache_pc' = [cache_pc EXCEPT ![c] = "miss"]
              /\ UNCHANGED <<cache_cb, cache_streak, cache_half>>
         [] outcome = "error" ->
              /\ cache_cb' = record_failure(cache_cb, now)
              /\ cache_pc' = [cache_pc EXCEPT ![c] = AfterRaise(cache_req[c].attempt)]
              /\ cache_streak' = cache_streak + 1
              /\ cache_half' = FALSE
    /\ cache_req' = [cache_req EXCEPT ![c] = ReqAt(@, cache_pc'[c])]
    /\ UNCHANGED <<not_cache_vars, component, now, cache_calls>>

(***************************************************************************)
(* set_cached_data up to `await self._client.set(...)`; it has no retry.   *)
(* A key longer than MAX_KEY_LENGTH raises ValueError inside the try, so   *)
(* it is recorded as a failure of the breaker.                             *)
(***************************************************************************)
CacheSetEnter(c, key_ok) ==
    LET ucb == cache_req[c].use_circuit_breaker
        cb1 == GuardBreaker(ucb, cache_cb, now)
    IN
    /\ component = "cache"
    /\ cache_pc[c] = "called"
    /\ cache_req[c].op = "set"
    /\ IF GuardRejects(ucb, cache_cb, now)
       THEN /\ cache_cb' = cb1
            /\ cache_half' = cache_half
            /\ cache_streak' = cache_streak
            /\ cache_pc' = [cache_pc EXCEPT ![c] = "raised_open"]
       ELSE IF ~key_ok
       THEN /\ cache_cb' = record_failure(cb1, now)
            /\ cache_half' = FALSE
            /\ cache_streak' = cache_streak + 1
            /\ cache_pc' = [cache_pc EXCEPT ![c] = "raised"]
       ELSE /\ cache_cb' = cb1
            /\ cache_half' = HalfAfterGuard(ucb, cache_cb, now)
            /\ cache_streak' = cache_streak
            /\ cache_pc' = [cache_pc EXCEPT ![c] = "awaiting_set"]
    /\ cache_req' = [cache_req EXCEPT ![c] = ReqAt(@, cache_pc'[c])]
    /\ UNCHANGED <<not_cache_vars, component, now, cache_calls>>

SetOutcomes == {"true", "false", "error"}

CacheSetReturn(c, outcome) ==
    /\ component = "cache"
    /\ cache_pc[c] = "awaiting_set"
    /\ CASE outcome = "true" ->
              /\ cache_cb' = record_success(cache_cb)
              /\ cache_pc' = [cache_pc EXCEPT ![c] = "set_ok"]
              /\ cache_streak' = 0
              /\ cache_half' = FALSE
         [] outcome = "false" ->
              /\ cache_pc' = [cache_pc EXCEPT ![c] = "set_false"]
              /\ UNCHANGED <<cache_cb, cache_streak, cache_half>>
         [] outcome = "error" ->
              /\ cache_cb' = record_failure(cache_cb, now)
              /\ cache_pc' = [cache_pc EXCEPT ![c] = "raised"]
              /\ cache_streak' = cache_streak + 1
              /\ cache_half' = FALSE
    /\ cache_req' = [cache_req EXCEPT ![c] = ReqAt(@, cache_pc'[c])]
    /\ UNCHANGED <<not_cache_vars, component, now, cache_calls>>

CacheStart ==
    \E c \in Callers, op \in {"get", "set"}, ucb \in BOOLEAN :
        \E oversized \in IF op = "set" THEN BOOLEAN ELSE {FALSE} :
            CacheInvoke(c, op, ucb, oversized)

CacheGetBody == \E c \in Callers : CacheGetEnter(c)

CacheGetAgain == \E c \in Callers : CacheGetRetry(c)

CacheGetDone == \E c \in Callers, o \in GetOutcomes : CacheGetReturn(c, o)

CacheSetBody == \E c \in Callers, key_ok \in BOOLEAN : CacheSetEnter(c, key_ok)

CacheSetDone == \E c \in Callers, o \in SetOutcomes : CacheSetReturn(c, o)

(***************************************************************************)
(* The clock.                                                              *)
(***************************************************************************)
Tick ==
    /\ now + TimeStep <= MaxTime
    /\ now' = now + TimeStep
    /\ UNCHANGED <<component, redis_vars, cache_vars, gen_vars, node_vars,
                   rel_vars, neo_vars, algo_vars, life_vars, art_vars>>


(***************************************************************************)
(* shared/database/neo4j.py: Neo4jConnection.  execute_query and           *)
(* get_session are plain functions: a call runs from its first line to its *)
(* return or raise without giving up the event loop (time.sleep blocks     *)
(* it), so no second call starts while one is under way.  A call is shown  *)
(* in two steps per attempt, the session being open between them.          *)
(***************************************************************************)
NeoAtRest == {"idle", "returned", "raised"}

\* retry_count as the callers pass it; 0 stands for None and for 0, which
\* `retry_count or MAX_RETRY_COUNT` treats alike
RetryCounts == {0, 1, 2, MaxRetryCount}

\* what driver.session() can do, and what session.run / record.data() can do
SessionOutcomes == {"ok", "ServiceUnavailable", "Exception"}

RunOutcomes == {"ok", "TransientError", "DatabaseError", "ServiceUnavailable",
                "Exception"}

NoCall == [pc |-> "idle", retries |-> 0, attempt |-> 0, last_error |-> "none",
           slept |-> <<>>, pre_active |-> 0, error |-> "none"]

Neo4jVarsInit ==
    /\ neo_metrics = [active_sessions |-> 0, total_queries |-> 0,
                      failed_queries |-> 0]
    /\ neo = [c \in Callers |-> NoCall]
    /\ neo_calls = 0

\* retries = retry_count or MAX_RETRY_COUNT
Retries(retry_count) ==
    IF retry_count # 0 THEN retry_count ELSE MAX_RETRY_COUNT

\* retry_delay = min(2 ** attempt, DEFAULT_MAX_RETRY_TIME)
RetryDelay(attempt) ==
    IF 2 ^ attempt < DEFAULT_MAX_RETRY_TIME THEN 2 ^ attempt
    ELSE DEFAULT_MAX_RETRY_TIME

\* the session left on the count
SessionKeptOpen(metrics) == metrics

\* get_session's finally: session.close() and active_sessions -= 1
SessionClosed(metrics) ==
    [metrics EXCEPT !.active_sessions = @ - 1]

\* self._connection_metrics['failed_queries'] += n
FailedQueries(metrics, n) ==
    [metrics EXCEPT !.failed_queries = @ + n]

NeoRaise(call, error) == [call EXCEPT !.pc = "raised", !.error = error]

\* execute_query up to the first pass of `for attempt in range(retries)`
ExecuteQuery(c, query_valid, retry_count) ==
    /\ component = "neo4j"
    /\ neo_calls < MaxNeoCalls
    /\ \A d \in Callers : neo[d].pc \in NeoAtRest
    /\ neo_calls' = neo_calls + 1
    /\ LET call == [NoCall EXCEPT
                       !.pre_active = neo_metrics.active_sessions]
       IN  neo' = [neo EXCEPT ![c] =
               IF ~query_valid THEN NeoRaise(call, "ValueError")
               ELSE [call EXCEPT !.pc = "attempt",
                                 !.retries = Retries(retry_count)]]
    /\ UNCHANGED <<neo_metrics, not_neo_vars>>

\* get_session up to its yield.  When driver.session() raises, session is
\* still None and the finally block does nothing; ServiceUnavailable and
\* SessionExpired are counted by get_session and again by execute_query's
\* `except Exception`.
GetSession(c, outcome) ==
    /\ component = "neo4j"
    /\ neo[c].pc = "attempt"
    /\ IF outcome = "ok"
       THEN /\ neo_metrics' = [neo_metrics EXCEPT !.active_sessions = @ + 1]
            /\ neo' = [neo EXCEPT ![c].pc = "session"]
       ELSE /\ neo_metrics' = FailedQueries(neo_metrics,
                   IF outcome = "ServiceUnavailable" THEN 2 ELSE 1)
            /\ neo' = [neo EXCEPT ![c] = NeoRaise(@, outcome)]
    /\ UNCHANGED <<neo_calls, not_neo_vars>>

\* The body of the with block, the exit from get_session and the handler
\* of execute_query that the outcome selects.
RunQuery(c, outcome) ==
    /\ component = "neo4j"
    /\ neo[c].pc = "session"
    /\ LET closed == SessionClosed(neo_metrics)
           call == neo[c]
       IN  CASE outcome = "ok" ->
                 /\ neo_metrics' = [closed EXCEPT !.total_queries = @ + 1]
                 /\ neo' = [neo EXCEPT ![c].pc = "returned"]
             [] outcome = "TransientError" ->
                 LET waited == [call EXCEPT
                         !.last_error = outcome,
                         !.slept = Append(@, RetryDelay(call.attempt))]
                 IN  IF call.attempt + 1 < call.retries
                     THEN /\ neo_metrics' = closed
                          /\ neo' = [neo EXCEPT ![c] =
                                 [waited EXCEPT !.pc = "attempt",
                                                !.attempt = @ + 1]]
                     ELSE /\ neo_metrics' = FailedQueries(closed, 1)
                          /\ neo' = [neo EXCEPT ![c] =
                                 NeoRaise(waited, waited.last_error)]
             [] outcome = "ServiceUnavailable" ->
                 /\ neo_metrics' = FailedQueries(closed, 2)
                 /\ neo' = [neo EXCEPT ![c] = NeoRaise(call, outcome)]
             [] OTHER ->
                 /\ neo_metrics' = FailedQueries(closed, 1)
                 /\ neo' = [neo EXCEPT ![c] = NeoRaise(call, outcome)]
    /\ UNCHANGED <<neo_calls, not_neo_vars>>

NeoCall ==
    \E c \in Callers, query_valid \in BOOLEAN, retry_count \in RetryCounts :
        ExecuteQuery(c, query_valid, retry_count)

NeoSession ==
    \E c \in Callers, outcome \in SessionOutcomes : GetSession(c, outcome)

NeoRun == \E c \in Callers, outcome \in RunOutcomes : RunQuery(c, outcome)

(***************************************************************************)
(* utils/graph_algorithms.py: calculate_centrality, find_similar_artworks  *)
(* and detect_communities.  Each validates its name, awaits one store      *)
(* query and computes its result from the rows.  The store is a set of     *)
(* artworks, each related to some other nodes; the rows of the similarity  *)
(* query are what its Cypher text selects.  The networkx computations of   *)
(* centrality and communities are not followed: their result is a token.   *)
(***************************************************************************)
CENTRALITY_TYPES == {"degree", "betweenness", "eigenvector", "pagerank"}

COMMUNITY_ALGORITHMS == {"louvain", "label_propagation",
                         "modularity_optimization"}

SIMILARITY_METRICS == {"jaccard", "cosine", "euclidean"}

AlgoFunctions == {"calculate_centrality", "find_similar_artworks",
                  "detect_communities"}

\* the list each function checks its name against
AllowList(fn) ==
    CASE fn = "calculate_centrality" -> CENTRALITY_TYPES
      [] fn = "find_similar_artworks" -> SIMILARITY_METRICS
      [] fn = "detect_communities" -> COMMUNITY_ALGORITHMS

\* the names callers pass: the listed ones and one that is on no list
AlgoNames(fn) == AllowList(fn) \cup {"manhattan"}

AnyName(fn, name) == TRUE

\* if name not in <list>: raise ValueError
NameAllowed(fn, name) == name \in AllowList(fn)

ArtworkOrder == <<"A", "B", "C">>    \* the ARTWORK nodes, in row order

Artworks == {ArtworkOrder[i] : i \in 1..Len(ArtworkOrder)}

NeighbourIds == {"X", "Y", "Z"}      \* the nodes artworks are related to

NodeType(n) ==
    CASE n = "X" -> "ARTIST" [] n = "Y" -> "MOVEMENT" [] OTHER -> "PERIOD"

\* A and B share X and Y out of X, Y, Z; C is related to nothing
SimilarityScenario == [a \in Artworks |->
    CASE a = "A" -> {"X", "Y"} [] a = "B" -> {"X", "Y", "Z"} [] OTHER -> {}]

\* the stores of a run: A as in the scenario, the other artworks related
\* to any of the nodes
AlgoStores ==
    {store \in [Artworks -> SUBSET NeighbourIds] :
        store["A"] = SimilarityScenario["A"]}

\* collect(distinct n.type + ':' + n.uuid) over MATCH (a)-[r]-(n)
Features(store, a) == {<<NodeType(n), ":", n>> : n \in store[a]}

\* The rows of the similarity query: nothing when the source artwork has no
\* related node; otherwise one row for every other artwork that has a
\* related node, at most LIMIT of them.
SimilarRows(store, artwork_id) ==
    LET Candidate(o) == o # artwork_id /\ store[o] # {}
        others == SelectSeq(ArtworkOrder, Candidate)
        rows == [i \in 1..Len(others) |->
                    [artwork_id |-> others[i],
                     features |-> Features(store, artwork_id),
                     other_features |-> Features(store, others[i])]]
    IN  IF store[artwork_id] = {} THEN <<>>
        ELSE IF Len(rows) > QUERY_LIMIT THEN SubSeq(rows, 1, QUERY_LIMIT)
        ELSE rows

JaccardOverSource(features, other_features) ==
    [num |-> Cardinality(features \cap other_features),
     den |-> Cardinality(features)]

\* len(set(f) & set(o)) / len(set(f) | set(o)), kept as a fraction
Jaccard(features, other_features) ==
    [num |-> Cardinality(features \cap other_features),
     den |-> Cardinality(features \cup other_features)]

\* the loop over the rows: jaccard appends an entry, the other metrics skip
Similarities(rows, metric) ==
    IF metric = "jaccard"
    THEN [i \in 1..Len(rows) |->
             [artwork_id |-> rows[i].artwork_id,
              similarity_score |->
                  Jaccard(rows[i].features, rows[i].other_features)]]
    ELSE <<>>

ScoreLess(x, y) == x.num * y.den < y.num * x.den

\* sorted(similarities, key=score, reverse=True): stable, highest first
RECURSIVE SortedByScore(_)
SortedByScore(seq) ==
    IF seq = <<>> THEN <<>>
    ELSE LET rest == SortedByScore(SubSeq(seq, 1, Len(seq) - 1))
             e == seq[Len(seq)]
             Keeps(x) == ~ScoreLess(x.similarity_score, e.similarity_score)
             Follows(x) == ScoreLess(x.similarity_score, e.similarity_score)
         IN  SelectSeq(rest, Keeps) \o <<e>> \o SelectSeq(rest, Follows)

\* [:limit]
Top(seq, limit) ==
    IF Len(seq) > limit THEN SubSeq(seq, 1, limit) ELSE seq

AlgoAtRest == {"idle", "returned", "raised"}

NoAlgoCall == [pc |-> "idle", fn |-> "calculate_centrality",
               name |-> "degree", artwork_id |-> "A", limit |-> 1,
               queried |-> FALSE, result |-> <<>>, error |-> "none"]

AlgoVarsInit ==
    /\ algo_store = SimilarityScenario
    /\ algo = NoAlgoCall
    /\ algo_calls = 0

\* the function up to its `await db.execute_query`: the name check comes
\* first and raises before the query is built
AlgoInvoke(fn, name, artwork_id, limit) ==
    /\ component = "algo"
    /\ algo.pc \in AlgoAtRest
    /\ algo_calls < MaxAlgoCalls
    /\ algo_calls' = algo_calls + 1
    /\ LET call == [NoAlgoCall EXCEPT !.fn = fn, !.name = name,
                                      !.artwork_id = artwork_id,
                                      !.limit = limit]
       IN  algo' = IF NameAllowed(fn, name)
                   THEN [call EXCEPT !.pc = "query"]
                   ELSE [call EXCEPT !.pc = "raised", !.error = "ValueError"]
    /\ UNCHANGED <<algo_store, not_algo_vars>>

\* the query returns its rows or raises; the rest of the function runs
AlgoQueryReturn(query_ok) ==
    /\ component = "algo"
    /\ algo.pc = "query"
    /\ LET call == [algo EXCEPT !.queried = TRUE]
           rows == SimilarRows(algo_store, algo.artwork_id)
       IN  algo' =
             IF ~query_ok
             THEN [call EXCEPT !.pc = "raised", !.error = "Exception"]
             ELSE IF algo.fn = "find_similar_artworks"
             THEN [call EXCEPT !.pc = "returned",
                     !.result = Top(SortedByScore(
                                      Similarities(rows, algo.name)),
                                    algo.limit)]
             ELSE [call EXCEPT !.pc = "returned",
                     !.result = <<[computed |-> algo.fn]>>]
    /\ UNCHANGED <<algo_store, algo_calls, not_algo_vars>>

AlgoStart ==
    \E fn \in AlgoFunctions :
        \E name \in AlgoNames(fn), artwork_id \in Artworks,
           limit \in 1..MaxLimit :
            AlgoInvoke(fn, name, artwork_id, limit)

AlgoQueryDone == \E ok \in BOOLEAN : AlgoQueryReturn(ok)

(***************************************************************************)
(* models/node.py: Node.update.  Each caller holds a Node object read from *)
(* the store; two callers may hold the same object or two copies.  The     *)
(* awaited db.execute_query is one query executed by the store.            *)
(***************************************************************************)
NodeObjects == {"n1", "n2"}

PropValues == {"a", "b"}

\* {**old, **new}
Merge(old, new) ==
    [k \in DOMAIN old \cup DOMAIN new |->
        IF k \in DOMAIN new THEN new[k] ELSE old[k]]

OneProperty(key, value) == [k \in {key} |-> value]

NodeInitial == [version |-> 1, properties |-> OneProperty("title", "a")]

NodeUpdates == {OneProperty(k, v) : k \in {"title", "medium"}, v \in PropValues}

NoParams == [current_version |-> 0, new_version |-> 0,
             properties |-> NodeInitial.properties, stored_at_call |-> 0]

EntityAtRest == {"idle", "updated", "conflict", "error", "invalid"}

\* WHERE n.version = $current_version
VersionUnchecked(stored, current_version) == TRUE

VersionMatches(stored, current_version) == stored.version = current_version

\* update() up to its await: the properties are merged and validated and the
\* query parameters are taken from the object as it is now
NodeUpdateCall(c, properties) ==
    /\ component = "node"
    /\ node_pc[c] \in EntityAtRest
    /\ node_calls < MaxNodeCalls
    /\ node_calls' = node_calls + 1
    /\ LET self == node_mem[node_obj[c]]
       IN  node_params' = [node_params EXCEPT ![c] =
                [current_version |-> self.version,
                 new_version |-> self.version + 1,
                 properties |-> Merge(self.properties, properties),
                 stored_at_call |-> node_store.version]]
    /\ node_pc' = [node_pc EXCEPT ![c] = "awaiting"]
    /\ UNCHANGED <<node_store, node_mem, node_obj, not_node_vars>>

\* the query returns: a row when the stored version matched, else no row
NodeQueryReturn(c) ==
    /\ component = "node"
    /\ node_pc[c] = "awaiting"
    /\ LET p == node_params[c]
           o == node_obj[c]
       IN  IF VersionMatches(node_store, p.current_version)
           THEN /\ node_store' = [version |-> p.new_version,
                                  properties |-> p.properties]
                /\ node_mem' = [node_mem EXCEPT ![o] =
                        [version |-> node_mem[o].version + 1,
                         properties |-> p.properties]]
                /\ node_pc' = [node_pc EXCEPT ![c] = "updated"]
           ELSE /\ node_pc' = [node_pc EXCEPT ![c] = "conflict"]
                /\ UNCHANGED <<node_store, node_mem>>
    /\ UNCHANGED <<node_obj, node_params, node_calls, not_node_vars>>

\* the query raises instead: nothing was written, update() re-raises
NodeQueryError(c) ==
    /\ component = "node"
    /\ node_pc[c] = "awaiting"
    /\ node_pc' = [node_pc EXCEPT ![c] = "error"]
    /\ UNCHANGED <<node_store, node_mem, node_obj, node_params, node_calls,
                   not_node_vars>>

NodeUpdate == \E c \in Callers, p \in NodeUpdates : NodeUpdateCall(c, p)

NodeQueryDone == \E c \in Callers : NodeQueryReturn(c)

NodeQueryFails == \E c \in Callers : NodeQueryError(c)

NodeVarsInit ==
    /\ node_store = NodeInitial
    /\ node_mem = [o \in NodeObjects |-> NodeInitial]
    /\ node_pc = [c \in Callers |-> "idle"]
    /\ node_params = [c \in Callers |-> NoParams]
    /\ node_calls = 0

(***************************************************************************)
(* models/relationship.py: Relationship.update, for a BELONGS_TO           *)
(* relationship (REQUIRED_PROPERTIES: confidence).                         *)
(***************************************************************************)
RelObjects == {"r1", "r2"}

RELATIONSHIP_PROPERTIES == {"strength", "confidence", "start_date", "end_date",
                            "source", "metadata"}

REQUIRED_PROPERTIES == {"confidence"}

EmptyProperties == [k \in {} |-> "a"]

RelStored == [version |-> 1, properties |-> OneProperty("confidence", "a")]

RelInitial == [version |-> 1, properties |-> OneProperty("confidence", "a"),
               audit_trail |-> <<>>]

RelUpdates ==
    {EmptyProperties}
    \cup {OneProperty(k, v) : k \in {"confidence", "strength", "label"},
                              v \in PropValues}

\* validate_properties: the keys it keeps, and whether it raises
Sanitized(properties) ==
    [k \in DOMAIN properties \cap RELATIONSHIP_PROPERTIES |-> properties[k]]

PropertiesValid(properties) ==
    DOMAIN properties = {} \/ REQUIRED_PROPERTIES \subseteq DOMAIN properties

NoRelParams == [version |-> 0, new_version |-> 0,
                properties |-> EmptyProperties, stored_at_call |-> 0]

\* update() up to its await: the version argument is compared with the
\* object's own version, the properties are validated, the query is built
RelUpdateCall(c, properties, version) ==
    /\ component = "rel"
    /\ rel_pc[c] \in EntityAtRest
    /\ rel_calls < MaxRelCalls
    /\ rel_calls' = rel_calls + 1
    /\ LET self == rel_mem[rel_obj[c]]
       IN  IF version # self.version
           THEN /\ rel_pc' = [rel_pc EXCEPT ![c] = "conflict"]
                /\ rel_params' = [rel_params EXCEPT ![c] = NoRelParams]
           ELSE IF ~PropertiesValid(properties)
           THEN /\ rel_pc' = [rel_pc EXCEPT ![c] = "invalid"]
                /\ rel_params' = [rel_params EXCEPT ![c] = NoRelParams]
           ELSE /\ rel_pc' = [rel_pc EXCEPT ![c] = "awaiting"]
                /\ rel_params' = [rel_params EXCEPT ![c] =
                        [version |-> version,
                         new_version |-> self.version + 1,
                         properties |-> Sanitized(properties),
                         stored_at_call |-> rel_store.version]]
    /\ UNCHANGED <<rel_store, rel_mem, rel_obj, not_rel_vars>>

\* the query returns: SET r += $properties, r.version = $new_version was
\* applied to the relationship matched by uuid; then the object is updated
RelQueryReturn(c) ==
    /\ component = "rel"
    /\ rel_pc[c] = "awaiting"
    /\ LET p == rel_params[c]
           o == rel_obj[c]
       IN  /\ rel_store' = [rel_store EXCEPT
                    !.version = p.new_version,
                    !.properties = Merge(rel_store.properties, p.properties)]
           /\ rel_mem' = [rel_mem EXCEPT ![o] =
                    [version |-> rel_mem[o].version + 1,
                     properties |-> Merge(rel_mem[o].properties, p.properties),
                     audit_trail |-> Append(rel_mem[o].audit_trail, p.version)]]
    /\ rel_pc' = [rel_pc EXCEPT ![c] = "updated"]
    /\ UNCHANGED <<rel_obj, rel_params, rel_calls, not_rel_vars>>

\* the query raises instead: nothing was written, update() re-raises
RelQueryError(c) ==
    /\ component = "rel"
    /\ rel_pc[c] = "awaiting"
    /\ rel_pc' = [rel_pc EXCEPT ![c] = "error"]
    /\ UNCHANGED <<rel_store, rel_mem, rel_obj, rel_params, rel_calls,
                   not_rel_vars>>

RelVersions == 1..(MaxRelCalls + 1)

RelUpdate ==
    \E c \in Callers, p \in RelUpdates, v \in RelVersions : RelUpdateCall(c, p, v)

RelQueryDone == \E c \in Callers : RelQueryReturn(c)

RelQueryFails == \E c \in Callers : RelQueryError(c)

RelVarsInit ==
    /\ rel_store = RelStored
    /\ rel_mem = [o \in RelObjects |-> RelInitial]
    /\ rel_pc = [c \in Callers |-> "idle"]
    /\ rel_params = [c \in Callers |-> NoRelParams]
    /\ rel_calls = 0

(***************************************************************************)
(* models/relationship.py: one Relationship object through create, update  *)
(* and delete.  The object is built with any type, end nodes and property  *)
(* map the constructor accepts (only the type is validated there).         *)
(***************************************************************************)
LifeTypes == {"CREATED_BY", "BELONGS_TO", "LOCATED_IN"}

LifeNodes == {"N1", "N2"}

\* REQUIRED_PROPERTIES.get(self.type, [])
RequiredFor(type) ==
    CASE type = "CREATED_BY" -> {"start_date", "confidence"}
      [] type = "BELONGS_TO" -> REQUIRED_PROPERTIES
      [] type = "INFLUENCED_BY" -> {"strength", "start_date", "end_date"}
      [] OTHER -> {}

\* the property maps a relationship is built or updated with
LifeProperties ==
    {EmptyProperties, OneProperty("confidence", "a"),
     OneProperty("label", "a"),
     [k \in {"start_date", "confidence"} |-> "a"]}

\* validate_properties does not raise: an empty map is returned at once,
\* any other map must hold the properties required for the type
ValidFor(type, properties) ==
    DOMAIN properties = {} \/ RequiredFor(type) \subseteq DOMAIN properties

LifeObjects ==
    {[type |-> t, source_node |-> "N1", target_node |-> n, properties |-> p,
      version |-> 1, audit_trail |-> <<>>] :
        t \in LifeTypes, n \in LifeNodes, p \in LifeProperties}

NoLifeParams == [op |-> "none", properties |-> EmptyProperties, version |-> 0,
                 batch_mode |-> FALSE]

LifeVarsInit ==
    /\ life_rel = [type |-> "BELONGS_TO", source_node |-> "N1",
                   target_node |-> "N2",
                   properties |-> OneProperty("confidence", "a"),
                   version |-> 1, audit_trail |-> <<>>]
    /\ life_store = {}
    /\ life_pc = [c \in Callers |-> "idle"]
    /\ life_params = [c \in Callers |-> NoLifeParams]
    /\ life_calls = 0

\* create() up to its await: self.properties is replaced by the validated
\* map, the query and its parameters are built
LifeCreateCall(c, batch_mode) ==
    /\ component = "life"
    /\ life_pc[c] \in EntityAtRest
    /\ life_calls < MaxLifeCalls
    /\ life_calls' = life_calls + 1
    /\ IF ValidFor(life_rel.type, life_rel.properties)
       THEN /\ life_rel' = [life_rel EXCEPT
                               !.properties = Sanitized(life_rel.properties)]
            /\ life_pc' = [life_pc EXCEPT ![c] = "awaiting"]
            /\ life_params' = [life_params EXCEPT ![c] =
                   [NoLifeParams EXCEPT
                       !.op = "create",
                       !.properties = Sanitized(life_rel.properties),
                       !.batch_mode = batch_mode]]
       ELSE /\ life_pc' = [life_pc EXCEPT ![c] = "invalid"]
            /\ life_params' = [life_params EXCEPT ![c] = NoLifeParams]
            /\ UNCHANGED life_rel
    /\ UNCHANGED <<life_store, not_life_vars>>

\* update() up to its await
LifeUpdateCall(c, properties, version) ==
    /\ component = "life"
    /\ life_pc[c] \in EntityAtRest
    /\ life_calls < MaxLifeCalls
    /\ life_calls' = life_calls + 1
    /\ IF version # life_rel.version
       THEN /\ life_pc' = [life_pc EXCEPT ![c] = "conflict"]
            /\ life_params' = [life_params EXCEPT ![c] = NoLifeParams]
       ELSE IF ~ValidFor(life_rel.type, properties)
       THEN /\ life_pc' = [life_pc EXCEPT ![c] = "invalid"]
            /\ life_params' = [life_params EXCEPT ![c] = NoLifeParams]
       ELSE /\ life_pc' = [life_pc EXCEPT ![c] = "awaiting"]
            /\ life_params' = [life_params EXCEPT ![c] =
                   [NoLifeParams EXCEPT !.op = "update",
                                        !.properties = Sanitized(properties),
                                        !.version = version]]
    /\ UNCHANGED <<life_rel, life_store, not_life_vars>>

\* delete() up to its await
LifeDeleteCall(c) ==
    /\ component = "life"
    /\ life_pc[c] \in EntityAtRest
    /\ life_calls < MaxLifeCalls
    /\ life_calls' = life_calls + 1
    /\ life_pc' = [life_pc EXCEPT ![c] = "awaiting"]
    /\ life_params' = [life_params EXCEPT ![c] =
                          [NoLifeParams EXCEPT !.op = "delete"]]
    /\ UNCHANGED <<life_rel, life_store, not_life_vars>>

AuditDropped(trail, entry) == trail

\* self.audit_trail.append(entry)
AuditAppend(trail, entry) == Append(trail, entry)

\* The query returns and the method runs to its return.  create's query
\* makes a relationship of $type from source to target holding $properties
\* and nothing else; the queries of update and delete look for a
\* relationship whose uuid property is self.uuid, which no relationship
\* made by create has, so they leave those as they are.
LifeQueryReturn(c) ==
    /\ component = "life"
    /\ life_pc[c] = "awaiting"
    /\ LET p == life_params[c]
       IN  CASE p.op = "create" ->
                 /\ life_store' = life_store \cup
                        {[type |-> life_rel.type,
                          source_node |-> life_rel.source_node,
                          target_node |-> life_rel.target_node,
                          properties |-> p.properties]}
                 /\ life_rel' = [life_rel EXCEPT !.audit_trail =
                        AuditAppend(@, [action |-> "create",
                                        batch_mode |-> p.batch_mode])]
             [] p.op = "update" ->
                 /\ life_rel' = [life_rel EXCEPT
                        !.properties = Merge(@, p.properties),
                        !.version = @ + 1,
                        !.audit_trail =
                            AuditAppend(@, [action |-> "update",
                                            previous_version |-> p.version])]
                 /\ UNCHANGED life_store
             [] p.op = "delete" ->
                 /\ life_rel' = [life_rel EXCEPT !.audit_trail =
                        AuditAppend(@, [action |-> "delete"])]
                 /\ UNCHANGED life_store
    /\ life_pc' = [life_pc EXCEPT ![c] = "updated"]
    /\ UNCHANGED <<life_params, life_calls, not_life_vars>>

\* the query raises instead: the method logs and re-raises
LifeQueryError(c) ==
    /\ component = "life"
    /\ life_pc[c] = "awaiting"
    /\ life_pc' = [life_pc EXCEPT ![c] = "error"]
    /\ UNCHANGED <<life_rel, life_store, life_params, life_calls,
                   not_life_vars>>

LifeCreate == \E c \in Callers, b \in BOOLEAN : LifeCreateCall(c, b)

LifeUpdate ==
    \E c \in Callers, p \in LifeProperties, v \in 1..MaxLifeCalls :
        LifeUpdateCall(c, p, v)

LifeDelete == \E c \in Callers : LifeDeleteCall(c)

LifeQueryDone == \E c \in Callers : LifeQueryReturn(c)

LifeQueryFails == \E c \in Callers : LifeQueryError(c)

(***************************************************************************)
(* models/artwork.py: Artwork.update_metadata, which changes the object    *)
(* and then awaits Node.update.  Each caller holds its own Artwork object  *)
(* read from the one stored node.                                          *)
(***************************************************************************)
AuditUsers == {"editor", "curator"}

MetadataUpdates == {OneProperty("note", v) : v \in PropValues}

\* _generate_checksum: uuid5 over title, creation_date and medium
Checksum(title, creation_date, medium) == <<title, creation_date, medium>>

\* the properties update_metadata reads or writes; the keys Node requires
\* of an ARTWORK (title, year, medium) are in the map from construction and
\* never change, so Node.update's validation passes
ArtworkProperties ==
    [version |-> 1, metadata |-> EmptyProperties,
     checksum |-> Checksum("title", "date", "medium")]

\* Artwork.__init__: node version 1, properties["version"] = 1
ArtworkInitial ==
    [title |-> "title", creation_date |-> "date", medium |-> "medium",
     version |-> 1, properties |-> ArtworkProperties,
     modified_by |-> "system", last_modified_by |-> "system"]

NoArtParams == [current_version |-> 0, new_version |-> 0,
                properties |-> ArtworkProperties, modified_by |-> "system",
                before |-> ArtworkInitial]

ArtVarsInit ==
    /\ art_store = [version |-> 1, properties |-> ArtworkProperties]
    /\ art_mem = [c \in Callers |-> ArtworkInitial]
    /\ art_pc = [c \in Callers |-> "idle"]
    /\ art_params = [c \in Callers |-> NoArtParams]
    /\ art_calls = 0

\* update_metadata up to the await inside Node.update: the metadata test,
\* the changes to the object, then Node.update's validation and parameters.
\* before is the object as the call found it.
UpdateMetadataCall(c, metadata_ok, metadata, audit_user) ==
    /\ component = "art"
    /\ art_pc[c] \in EntityAtRest
    /\ art_calls < MaxArtCalls
    /\ art_calls' = art_calls + 1
    /\ LET self == art_mem[c]
           changed == [self EXCEPT
               !.properties = [@ EXCEPT
                   !.version = @ + 1,
                   !.metadata = Merge(@, metadata),
                   !.checksum = Checksum(self.title, self.creation_date,
                                         self.medium)],
               !.modified_by = audit_user]
       IN  IF ~metadata_ok
           THEN /\ art_pc' = [art_pc EXCEPT ![c] = "invalid"]
                /\ art_params' = [art_params EXCEPT ![c] =
                       [NoArtParams EXCEPT !.before = self]]
                /\ UNCHANGED art_mem
           ELSE /\ art_pc' = [art_pc EXCEPT ![c] = "awaiting"]
                /\ art_mem' = [art_mem EXCEPT ![c] = changed]
                /\ art_params' = [art_params EXCEPT ![c] =
                       [current_version |-> changed.version,
                        new_version |-> changed.version + 1,
                        properties |-> changed.properties,
                        modified_by |-> audit_user,
                        before |-> self]]
    /\ UNCHANGED <<art_store, not_art_vars>>

\* Node.update's query returns: a row when the stored version was the
\* current_version (the node is then written), nothing otherwise, which
\* raises ValueError; update_metadata re-raises it
UpdateMetadataQueryReturn(c) ==
    /\ component = "art"
    /\ art_pc[c] = "awaiting"
    /\ LET p == art_params[c]
       IN  IF VersionMatches(art_store, p.current_version)
           THEN /\ art_store' = [version |-> p.new_version,
                                 properties |-> p.properties]
                /\ art_mem' = [art_mem EXCEPT ![c] =
                       [@ EXCEPT !.properties = p.properties,
                                 !.version = @ + 1,
                                 !.last_modified_by = p.modified_by]]
                /\ art_pc' = [art_pc EXCEPT ![c] = "updated"]
           ELSE /\ art_pc' = [art_pc EXCEPT ![c] = "conflict"]
                /\ UNCHANGED <<art_store, art_mem>>
    /\ UNCHANGED <<art_params, art_calls, not_art_vars>>

\* the query raises: Node.update and update_metadata log and re-raise
UpdateMetadataQueryError(c) ==
    /\ component = "art"
    /\ art_pc[c] = "awaiting"
    /\ art_pc' = [art_pc EXCEPT ![c] = "error"]
    /\ UNCHANGED <<art_store, art_mem, art_params, art_calls, not_art_vars>>

ArtUpdate ==
    \E c \in Callers, ok \in BOOLEAN, m \in MetadataUpdates,
       u \in AuditUsers :
        UpdateMetadataCall(c, ok, m, u)

ArtQueryDone == \E c \in Callers : UpdateMetadataQueryReturn(c)

ArtQueryFails == \E c \in Callers : UpdateMetadataQueryError(c)

\* no entity update is under way: each caller holds its own object
EntitiesInit ==
    /\ Neo4jVarsInit
    /\ AlgoVarsInit
    /\ NodeVarsInit
    /\ node_obj = [c \in Callers |-> IF c = "c1" THEN "n1" ELSE "n2"]
    /\ RelVarsInit
    /\ rel_obj = [c \in Callers |-> IF c = "c1" THEN "r1" ELSE "r2"]
    /\ LifeVarsInit
    /\ ArtVarsInit

(***************************************************************************)
(* The graph store, as GraphGenerator reads it.  _get_artwork_node and     *)
(* _get_node_relationships are called by graph_generator.py but defined    *)
(* nowhere in the repository; they follow the design document: the root    *)
(* lookup returns the node or nothing, the expansion of a node returns its *)
(* 1-hop neighbours and the relationships incident to it.                  *)
(***************************************************************************)
NodeOrder == <<"U1", "U2", "U3", "U4", "U5">>   \* the stored nodes

StoreNodes == {NodeOrder[i] : i \in 1..Len(NodeOrder)}

AbsentId == "U0"        \* an artwork id the store does not hold

Rel(id, s, t) == [uuid |-> id, source_node |-> s, target_node |-> t]

\* A CREATED_BY B, A BELONGS_TO M (the design document's scenario), then on
ScenarioStore ==
    {Rel("R1", "U1", "U2"), Rel("R2", "U1", "U3"), Rel("R3", "U2", "U4"),
     Rel("R4", "U4", "U5")}

\* a root with four neighbours, two of them related to each other
StarStore ==
    {Rel("R1", "U1", "U2"), Rel("R2", "U1", "U3"), Rel("R3", "U1", "U4"),
     Rel("R4", "U1", "U5"), Rel("R5", "U2", "U3")}

\* a cycle through the root with the relationships pointing both ways
CycleStore ==
    {Rel("R1", "U1", "U2"), Rel("R2", "U2", "U3"), Rel("R3", "U3", "U4"),
     Rel("R4", "U4", "U1"), Rel("R5", "U5", "U4")}

\* two branches below the root, each leading to a node of its own
ForkStore ==
    {Rel("R1", "U1", "U2"), Rel("R2", "U1", "U3"), Rel("R3", "U2", "U5"),
     Rel("R4", "U3", "U4")}

Stores == {ScenarioStore, StarStore, CycleStore, ForkStore}

Range(s) == {s[i] : i \in 1..Len(s)}

_get_artwork_node(artwork_id) == artwork_id \in StoreNodes

Incident(rels, node_id) ==
    {r \in rels : r.source_node = node_id \/ r.target_node = node_id}

Neighbours(rels, node_id) ==
    {IF r.source_node = node_id THEN r.target_node ELSE r.source_node :
        r \in Incident(rels, node_id)}

_get_node_relationships(rels, node_id) ==
    LET Related(n) == n \in Neighbours(rels, node_id)
    IN  [nodes |-> SelectSeq(NodeOrder, Related),
         relationships |-> Incident(rels, node_id)]

(***************************************************************************)
(* graph_generator.py: circuit_breaker, GraphGenerator                     *)
(***************************************************************************)
ArtworkIds == {"U1", AbsentId}

Depths == 0..MaxReqDepth

OptionSets == {"public", "restricted"}   \* options["security_level"]

NoGraph == [nodes |-> <<>>, relationships |-> {}, options |-> "none",
            truncated |-> FALSE]

NoEntry == NoGraph

\* cache_key = f"graph:{artwork_id}:{depth}"
CacheKey(artwork_id, depth, options) == <<artwork_id, depth>>

CacheKeys == {CacheKey(a, d, o) : a \in ArtworkIds, d \in Depths, o \in OptionSets}

GenAtRest == {"idle", "returned", "retry_error"}

NoRequest ==
    [pc |-> "idle", artwork_id |-> AbsentId, depth |-> 0, options |-> "public",
     attempt |-> 0, level |-> 0, nodes |-> <<>>, relationships |-> {},
     chunks |-> <<>>, queried |-> FALSE, result |-> NoGraph, from_cache |-> FALSE,
     error |-> "none"]

NoPrev == [artwork_id |-> "none", depth |-> 0, options |-> "none",
           result |-> NoGraph]

GenVarsInit ==
    /\ store_rels = ScenarioStore
    /\ gen_failure_count = 0
    /\ gen_since_failure = 0
    /\ gen_cache = [k \in CacheKeys |-> NoEntry]
    /\ gen = NoRequest
    /\ gen_prev = NoPrev
    /\ gen_calls = 0

\* chunks = [current_nodes[i:i + DEFAULT_BATCH_SIZE] for i in range(0, len, B)]
\* (Chunks); FullChunksOnly stops at the last full batch
FullChunksOnly(current_nodes) ==
    [k \in 1..(Len(current_nodes) \div DEFAULT_BATCH_SIZE) |->
        SubSeq(current_nodes, (k - 1) * DEFAULT_BATCH_SIZE + 1,
               k * DEFAULT_BATCH_SIZE)]

Chunks(current_nodes) ==
    LET n == Len(current_nodes)
        Last(k) == IF k * DEFAULT_BATCH_SIZE < n THEN k * DEFAULT_BATCH_SIZE ELSE n
    IN  [k \in 1..((n + DEFAULT_BATCH_SIZE - 1) \div DEFAULT_BATCH_SIZE) |->
            SubSeq(current_nodes, (k - 1) * DEFAULT_BATCH_SIZE + 1, Last(k))]

\* for level in range(depth)
MoreLevelsInclusive(level, depth) == level <= depth

MoreLevels(level, depth) == level < depth

\* if len(nodes) > MAX_GRAPH_SIZE: break
SizeLimitReached(nodes) == Len(nodes) > MAX_GRAPH_SIZE

\* tenacity after a raise of the wrapped call: wait and retry, or RetryError
AfterGenRaise(attempt) ==
    IF attempt < GEN_MAX_RETRY_ATTEMPTS THEN "retry_wait" ELSE "retry_error"

\* the locals of an attempt are dropped when it ends
Dropped(g, pc) ==
    [g EXCEPT !.pc = pc, !.level = 0, !.nodes = <<>>, !.relationships = {},
              !.chunks = <<>>]

\* the error swallowed instead: what was built so far goes on as the graph
GenRaiseSwallowed(g) ==
    /\ gen' = [g EXCEPT !.pc = "cache_set", !.chunks = <<>>,
                        !.result = [nodes |-> g.nodes,
                                    relationships |-> g.relationships,
                                    options |-> g.options,
                                    truncated |-> FALSE]]
    /\ UNCHANGED <<store_rels, gen_failure_count, gen_since_failure, gen_prev,
                   gen_calls, now, not_gen_vars>>

\* the body raised: the breaker's wrapper counts it, tenacity takes over
GenRaise(g) ==
    /\ gen_failure_count' = gen_failure_count + 1
    /\ gen_since_failure' = 0
    /\ gen' = Dropped(g, AfterGenRaise(g.attempt))
    /\ UNCHANGED <<store_rels, gen_prev, gen_calls, now, not_gen_vars>>

\* the body returned graph: the breaker's wrapper clears the count
GenReturn(graph, from_cache) ==
    /\ gen_failure_count' = 0
    /\ gen' = [Dropped(gen, "returned") EXCEPT !.result = graph,
                                                !.from_cache = from_cache,
                                                !.error = "none"]
    /\ UNCHANGED <<store_rels, gen_since_failure, gen_prev, gen_calls, now,
                   not_gen_vars>>

\* _generate_graph_parallel from the top of the level loop to its next await
LevelLoop(g, level) ==
    IF MoreLevels(level, g.depth)
    THEN [g EXCEPT !.pc = "batches", !.level = level,
                   !.chunks = Chunks(g.nodes)]
    ELSE [g EXCEPT !.pc = "cache_set", !.level = level, !.chunks = <<>>,
                   !.result = [nodes |-> g.nodes,
                               relationships |-> g.relationships,
                               options |-> g.options,
                               truncated |-> FALSE]]

\* the loop left by break: the graph goes on to _optimize_graph and the cache
LevelBreak(g) ==
    [g EXCEPT !.pc = "cache_set", !.chunks = <<>>,
              !.result = [nodes |-> g.nodes, relationships |-> g.relationships,
                          options |-> g.options,
                          truncated |-> FALSE]]

\* a request arrives; requests are served one after the other
GenInvoke(artwork_id, depth, options) ==
    /\ component = "gen"
    /\ gen.pc \in GenAtRest
    /\ gen_calls < MaxGenCalls
    /\ gen_calls' = gen_calls + 1
    /\ gen_prev' = IF gen.pc = "returned"
                   THEN [artwork_id |-> gen.artwork_id, depth |-> gen.depth,
                         options |-> gen.options, result |-> gen.result]
                   ELSE gen_prev
    /\ gen' = [NoRequest EXCEPT !.pc = "called", !.artwork_id = artwork_id,
                                !.depth = depth, !.options = options]
    /\ UNCHANGED <<store_rels, gen_failure_count, gen_since_failure, gen_cache,
                   now, not_gen_vars>>

\* tenacity runs the breaker's wrapper: rejected, or on to the cache read
GenAttempt ==
    /\ component = "gen"
    /\ gen.pc \in {"called", "retry_wait"}
    /\ LET g == [gen EXCEPT !.attempt = gen.attempt + 1]
       IN  gen' = IF gen_failure_count >= CIRCUIT_BREAKER_THRESHOLD
                  THEN [g EXCEPT !.pc = AfterGenRaise(g.attempt),
                                 !.error = "Exception"]
                  ELSE [g EXCEPT !.pc = "cache_get"]
    /\ UNCHANGED <<store_rels, gen_failure_count, gen_since_failure, gen_cache,
                   gen_prev, gen_calls, now, not_gen_vars>>

\* _get_from_cache hands back nothing when the read raised or found nothing
CacheHitUnchecked(read_ok, entry) == read_ok

CacheHit(read_ok, entry) == read_ok /\ entry # NoEntry

\* _get_from_cache returns: a hit ends the call, anything else is a miss
GenCacheGet(read_ok) ==
    /\ component = "gen"
    /\ gen.pc = "cache_get"
    /\ LET entry == gen_cache[CacheKey(gen.artwork_id, gen.depth, gen.options)]
       IN  IF CacheHit(read_ok, entry)
           THEN GenReturn(entry, TRUE)
           ELSE /\ gen' = [gen EXCEPT !.pc = "root_check"]
                /\ UNCHANGED <<store_rels, gen_failure_count, gen_since_failure,
                               gen_prev, gen_calls, now, not_gen_vars>>
    /\ UNCHANGED gen_cache

\* _get_artwork_node returns or raises
GenRootCheck(query_ok) ==
    /\ component = "gen"
    /\ gen.pc = "root_check"
    /\ LET g == [gen EXCEPT !.queried = TRUE,
                            !.nodes = <<gen.artwork_id>>]
       IN  IF query_ok /\ _get_artwork_node(gen.artwork_id)
           THEN /\ gen' = LevelLoop(g, 0)
                /\ UNCHANGED <<store_rels, gen_failure_count, gen_since_failure,
                               gen_cache, gen_prev, gen_calls, now, not_gen_vars>>
           ELSE /\ GenRaise([g EXCEPT !.error = IF query_ok THEN "ValueError"
                                                 ELSE "Exception"])
                /\ UNCHANGED gen_cache

\* if node.uuid not in nodes
AlwaysAdded(nodes, uuid) == TRUE

NotHeld(nodes, uuid) == uuid \notin Range(nodes)

RelationshipsReplaced(held, found) == found

\* relationships.update(related_data["relationships"])
RelationshipsUpdate(held, found) == held \cup found

\* _process_node_chunk of chunk i: _get_node_relationships returns for the
\* chunk's next node and the result is merged, or the query raises
GenQuery(i, query_ok) ==
    /\ component = "gen"
    /\ gen.pc = "batches"
    /\ i \in 1..Len(gen.chunks)
    /\ gen.chunks[i] # <<>>
    /\ LET node_id == Head(gen.chunks[i])
           related_data == _get_node_relationships(store_rels, node_id)
           Unseen(n) == NotHeld(gen.nodes, n)
           g == [gen EXCEPT !.queried = TRUE]
       IN  IF query_ok
           THEN /\ gen' = [g EXCEPT
                    !.chunks[i] = Tail(gen.chunks[i]),
                    !.nodes = gen.nodes \o SelectSeq(related_data.nodes, Unseen),
                    !.relationships = RelationshipsUpdate(
                        gen.relationships, related_data.relationships)]
                /\ UNCHANGED <<store_rels, gen_failure_count, gen_since_failure,
                               gen_prev, gen_calls, now, not_gen_vars>>
           ELSE GenRaise([g EXCEPT !.error = "Exception"])
    /\ UNCHANGED gen_cache

SomeTaskDone(chunks) == \E i \in 1..Len(chunks) : chunks[i] = <<>>

\* await asyncio.gather(*tasks) returns once every chunk's task has ended
AllTasksDone(chunks) == \A i \in 1..Len(chunks) : chunks[i] = <<>>

\* asyncio.gather returns: the size check, then the next level or the end
GenLevelEnd ==
    /\ component = "gen"
    /\ gen.pc = "batches"
    /\ AllTasksDone(gen.chunks)
    /\ gen' = IF SizeLimitReached(gen.nodes)
              THEN LevelBreak(gen)
              ELSE LevelLoop(gen, gen.level + 1)
    /\ UNCHANGED <<store_rels, gen_failure_count, gen_since_failure, gen_cache,
                   gen_prev, gen_calls, now, not_gen_vars>>

\* a failed cache write raised to the caller instead
GenCacheSetRaising(write_ok) ==
    /\ component = "gen"
    /\ gen.pc = "cache_set"
    /\ IF write_ok
       THEN /\ gen_cache' = [gen_cache EXCEPT
                    ![CacheKey(gen.artwork_id, gen.depth, gen.options)]
                        = gen.result]
            /\ GenReturn(gen.result, FALSE)
       ELSE /\ GenRaise([gen EXCEPT !.error = "Exception"])
            /\ UNCHANGED gen_cache

\* _cache_graph returns (a cache error is swallowed) and the graph is returned
GenCacheSet(write_ok) ==
    /\ component = "gen"
    /\ gen.pc = "cache_set"
    /\ gen_cache' = IF write_ok
                    THEN [gen_cache EXCEPT
                            ![CacheKey(gen.artwork_id, gen.depth, gen.options)]
                                = gen.result]
                    ELSE gen_cache
    /\ GenReturn(gen.result, FALSE)

\* GRAPH_CACHE_TTL runs out for an entry
GenExpire(k) ==
    /\ component = "gen"
    /\ gen.pc \in GenAtRest
    /\ gen_cache[k] # NoEntry
    /\ gen_cache' = [gen_cache EXCEPT ![k] = NoEntry]
    /\ UNCHANGED <<store_rels, gen_failure_count, gen_since_failure, gen,
                   gen_prev, gen_calls, now, not_gen_vars>>

GenStart ==
    \E a \in ArtworkIds, d \in Depths, o \in OptionSets : GenInvoke(a, d, o)

GenCacheRead == \E ok \in BOOLEAN : GenCacheGet(ok)

GenRoot == \E ok \in BOOLEAN : GenRootCheck(ok)

GenExpand == \E i \in 1..Len(NodeOrder), ok \in BOOLEAN : GenQuery(i, ok)

GenCacheWrite == \E ok \in BOOLEAN : GenCacheSet(ok)

GenEvict == \E k \in CacheKeys : GenExpire(k)

\* time passes between requests; it is followed once the breaker's count has
\* reached the threshold, from the failure that brought it there
GenClock ==
    /\ component = "gen"
    /\ gen.pc \in GenAtRest
    /\ gen_failure_count >= CIRCUIT_BREAKER_THRESHOLD
    /\ gen_since_failure + TimeStep <= MaxTime
    /\ gen_since_failure' = gen_since_failure + TimeStep
    /\ UNCHANGED <<store_rels, gen_failure_count, gen_cache, gen, gen_prev,
                   gen_calls, now, not_gen_vars>>

GenInit ==
    /\ component = "gen"
    /\ now = 0
    /\ redis_cb = RedisBreakerInit
    /\ redis_pc = [c \in Callers |-> "idle"]
    /\ redis_calls = 0
    /\ redis_rate_limits = NoRateLimits
    /\ redis_req = [c \in Callers |-> "default"]
    /\ cache_cb = CacheBreakerInit
    /\ cache_pc = [c \in Callers |-> "idle"]
    /\ cache_req = [c \in Callers |-> NoReq]
    /\ cache_calls = 0
    /\ cache_streak = 0
    /\ cache_half = FALSE
    /\ store_rels \in Stores
    /\ gen_failure_count = 0
    /\ gen_since_failure = 0
    /\ gen_cache = [k \in CacheKeys |-> NoEntry]
    /\ gen = NoRequest
    /\ gen_prev = NoPrev
    /\ gen_calls = 0
    /\ EntitiesInit

GenNext ==
    \/ GenStart \/ GenAttempt \/ GenCacheRead \/ GenRoot \/ GenExpand
    \/ GenLevelEnd \/ GenCacheWrite \/ GenEvict \/ GenClock

SpecGen == GenInit /\ [][GenNext]_vars

(***************************************************************************)
(* The two client breakers, driven by concurrent callers.                  *)
(***************************************************************************)
BreakersInit ==
    /\ component \in {"redis", "cache"}
    /\ now = 0
    /\ redis_cb = RedisBreakerInit
    /\ redis_pc = [c \in Callers |-> "idle"]
    /\ redis_calls = 0
    /\ redis_rate_limits = NoRateLimits
    /\ redis_req = [c \in Callers |-> "default"]
    /\ cache_cb = CacheBreakerInit
    /\ cache_pc = [c \in Callers |-> "idle"]
    /\ cache_req = [c \in Callers |-> NoReq]
    /\ cache_calls = 0
    /\ cache_streak = 0
    /\ cache_half = FALSE
    /\ GenVarsInit
    /\ EntitiesInit

BreakersNext ==
    \/ RedisStart \/ RedisWrapper \/ RedisOk \/ RedisFail
    \/ CacheStart \/ CacheGetBody \/ CacheGetAgain \/ CacheGetDone
    \/ CacheSetBody \/ CacheSetDone
    \/ Tick

SpecBreakers == BreakersInit /\ [][BreakersNext]_vars


(***************************************************************************)
(* Concurrent updates of one stored node, and of one stored relationship.  *)
(***************************************************************************)
ClientsInit ==
    /\ now = 0
    /\ redis_cb = RedisBreakerInit
    /\ redis_pc = [c \in Callers |-> "idle"]
    /\ redis_calls = 0
    /\ redis_rate_limits = NoRateLimits
    /\ redis_req = [c \in Callers |-> "default"]
    /\ cache_cb = CacheBreakerInit
    /\ cache_pc = [c \in Callers |-> "idle"]
    /\ cache_req = [c \in Callers |-> NoReq]
    /\ cache_calls = 0
    /\ cache_streak = 0
    /\ cache_half = FALSE

NodeInit ==
    /\ component = "node"
    /\ ClientsInit
    /\ Neo4jVarsInit
    /\ AlgoVarsInit
    /\ GenVarsInit
    /\ NodeVarsInit
    /\ node_obj \in [Callers -> NodeObjects]
    /\ RelVarsInit
    /\ rel_obj = [c \in Callers |-> IF c = "c1" THEN "r1" ELSE "r2"]
    /\ LifeVarsInit
    /\ ArtVarsInit

NodeNext == NodeUpdate \/ NodeQueryDone \/ NodeQueryFails

SpecNode == NodeInit /\ [][NodeNext]_vars

RelInit ==
    /\ component = "rel"
    /\ ClientsInit
    /\ Neo4jVarsInit
    /\ AlgoVarsInit
    /\ GenVarsInit
    /\ NodeVarsInit
    /\ node_obj = [c \in Callers |-> IF c = "c1" THEN "n1" ELSE "n2"]
    /\ RelVarsInit
    /\ rel_obj \in [Callers -> RelObjects]
    /\ LifeVarsInit
    /\ ArtVarsInit

RelNext == RelUpdate \/ RelQueryDone \/ RelQueryFails

SpecRel == RelInit /\ [][RelNext]_vars

Neo4jInit ==
    /\ component = "neo4j"
    /\ ClientsInit
    /\ GenVarsInit
    /\ EntitiesInit

\* everything but the graph algorithms, idle
NotAlgoInit ==
    /\ ClientsInit
    /\ GenVarsInit
    /\ Neo4jVarsInit
    /\ NodeVarsInit
    /\ node_obj = [c \in Callers |-> IF c = "c1" THEN "n1" ELSE "n2"]
    /\ RelVarsInit
    /\ rel_obj = [c \in Callers |-> IF c = "c1" THEN "r1" ELSE "r2"]
    /\ LifeVarsInit
    /\ ArtVarsInit

AlgoInit ==
    /\ component = "algo"
    /\ NotAlgoInit
    /\ algo_store \in AlgoStores
    /\ algo = NoAlgoCall
    /\ algo_calls = 0

AlgoNext == AlgoStart \/ AlgoQueryDone

SpecAlgo == AlgoInit /\ [][AlgoNext]_vars

LifeInit ==
    /\ component = "life"
    /\ ClientsInit
    /\ GenVarsInit
    /\ Neo4jVarsInit
    /\ AlgoVarsInit
    /\ NodeVarsInit
    /\ node_obj = [c \in Callers |-> IF c = "c1" THEN "n1" ELSE "n2"]
    /\ RelVarsInit
    /\ rel_obj = [c \in Callers |-> IF c = "c1" THEN "r1" ELSE "r2"]
    /\ life_rel \in LifeObjects
    /\ life_store = {}
    /\ life_pc = [c \in Callers |-> "idle"]
    /\ life_params = [c \in Callers |-> NoLifeParams]
    /\ life_calls = 0
    /\ ArtVarsInit

LifeNext ==
    LifeCreate \/ LifeUpdate \/ LifeDelete \/ LifeQueryDone \/ LifeQueryFails

SpecRelLife == LifeInit /\ [][LifeNext]_vars

ArtInit ==
    /\ component = "art"
    /\ ClientsInit
    /\ GenVarsInit
    /\ EntitiesInit

ArtNext == ArtUpdate \/ ArtQueryDone \/ ArtQueryFails

SpecArtwork == ArtInit /\ [][ArtNext]_vars

Neo4jNext == NeoCall \/ NeoSession \/ NeoRun

SpecNeo4j == Neo4jInit /\ [][Neo4jNext]_vars

(***************************************************************************)
(* Properties of the two client breakers.                                  *)
(***************************************************************************)
\* caller c's RedisClient wrapper runs in this step
RedisAttempt(c) == redis_pc[c] = "called" /\ redis_pc'[c] # "called"

\* caller c's get/set_cached_data body (first run or a retry) runs in this step
CacheAttempt(c) ==
    \/ cache_pc[c] = "called" /\ cache_pc'[c] # "called"
    \/ /\ cache_pc[c] = "retry_wait"
       /\ \/ cache_pc'[c] # "retry_wait"
          \/ cache_req'[c].attempt # cache_req[c].attempt

CacheFailureRecorded == cache_cb'.failures = cache_cb.failures + 1

CacheSuccessRecorded ==
    /\ cache_cb'.total_requests = cache_cb.total_requests + 1
    /\ cache_cb'.failures = cache_cb.failures

\* C2: from a CLOSED CacheManager breaker, the failure that makes it
\* threshold (5) consecutive failures opens the breaker, whatever successes
\* came earlier, and a failure that leaves the run shorter than the
\* threshold leaves the breaker CLOSED.
C2_ThresholdOpens ==
    [][CacheFailureRecorded =>
        /\ (cache_streak' >= TEST_BREAKER_THRESHOLD => cache_cb'.is_open)
        /\ ( /\ ~cache_cb.is_open
             /\ ~cache_half
             /\ cache_streak' < TEST_BREAKER_THRESHOLD )
           => ~cache_cb'.is_open
      ]_vars

\* C3: once the reset timeout has elapsed at most one probe is in flight,
\* and the probe's outcome decides: success closes the breaker with the
\* failure count cleared, failure opens it again.
C3_SingleProbeDecides ==
    [][ /\ Cardinality({c \in Callers : redis_pc'[c] = "probing"}) <= 1
        /\ \A c \in Callers :
             /\ (redis_pc[c] = "probing" /\ redis_pc'[c] = "returned")
                => (~redis_cb'.is_open /\ redis_cb'.failures = 0)
             /\ (redis_pc[c] = "probing" /\ redis_pc'[c] = "raised")
                => redis_cb'.is_open
      ]_vars

\* C4: in the half-open state (the interval elapsed and the guard let a
\* call through), a successful cache operation leaves the breaker CLOSED.
C4_HalfOpenSuccessCloses ==
    [][(cache_half /\ ~cache_cb.is_open /\ CacheSuccessRecorded)
          => ~cache_cb'.is_open]_vars

(***************************************************************************)
(* Properties of GraphGenerator.                                           *)
(***************************************************************************)
\* the breaker's wrapper of generate_artwork_graph runs in this step
GenAttemptStep ==
    gen.pc \in {"called", "retry_wait"} /\ gen'.attempt = gen.attempt + 1

\* C5: the breaker of generate_artwork_graph does not stay open for ever:
\* an attempt made when the failure count has reached
\* CIRCUIT_BREAKER_THRESHOLD and more than the reset timeout has passed since
\* the last counted failure is let through to the generation body, and a
\* call that returns leaves the count cleared.  graph_generator.py names no
\* reset timeout; the RedisClient breaker's reset_timeout stands for it.
C5_BreakerReopens ==
    [][/\ (GenAttemptStep
            /\ gen_failure_count >= CIRCUIT_BREAKER_THRESHOLD
            /\ gen_since_failure > reset_timeout)
          => gen'.pc = "cache_get"
       /\ (gen.pc # "returned" /\ gen'.pc = "returned")
          => gen_failure_count' = 0]_vars

\* the nodes within k hops of root, the relationships taken in both directions
RECURSIVE Ball(_, _, _)
Ball(rels, root, k) ==
    IF k = 0
    THEN {root}
    ELSE LET inner == Ball(rels, root, k - 1)
         IN  inner
             \cup {r.target_node : r \in {x \in rels : x.source_node \in inner}}
             \cup {r.source_node : r \in {x \in rels : x.target_node \in inner}}

NodeSet(graph) == {graph.nodes[i] : i \in 1..Len(graph.nodes)}

SameRequest == gen_prev.artwork_id = gen.artwork_id /\ gen_prev.depth = gen.depth

\* the request in service returns a graph in this step
GenReturns == gen.pc # "returned" /\ gen'.pc = "returned"

\* the cache entry of the request in service
GenEntry == gen_cache[CacheKey(gen.artwork_id, gen.depth, gen.options)]

C9_OptionsNotShared ==
    (gen.pc = "returned" /\ gen.from_cache)
    => gen.result.options = gen.options

\* C10: every node of a returned graph lies within depth hops of the root,
\* and no returned relationship joins two nodes that are both further than
\* depth hops from the root.
C10_DepthBound ==
    gen.pc = "returned" =>
        LET within == Ball(store_rels, gen.artwork_id, gen.depth)
        IN  /\ NodeSet(gen.result) \subseteq within
            /\ \A r \in gen.result.relationships :
                r.source_node \in within \/ r.target_node \in within

\* C10 witness: a graph generated at depth 1 is returned while the store
\* holds nodes two hops from the root
C10_Witness ==
    /\ gen.pc = "returned" /\ ~gen.from_cache /\ gen.depth = 1
    /\ NodeSet(gen.result) = Ball(store_rels, gen.artwork_id, 1)
    /\ Ball(store_rels, gen.artwork_id, 2) # Ball(store_rels, gen.artwork_id, 1)

(***************************************************************************)
(* Properties of the entity updates.                                       *)
(***************************************************************************)
\* caller c's Node.update query completes with a result in this step
NodeCompletes(c) ==
    node_pc[c] = "awaiting" /\ node_pc'[c] \in {"updated", "conflict"}

\* both callers' latest updates started from the stored version v, were
\* built for that version, and have completed with a result
NodeRaceOver(pc, params) ==
    \A c \in Callers :
        /\ pc[c] \in {"updated", "conflict"}
        /\ params[c].current_version = params[c].stored_at_call
        /\ params[c].current_version = params["c1"].current_version

\* C6: an update succeeds exactly when the stored version is the version it
\* started from, and then the stored version and the caller's object move
\* from v to v + 1 with the new properties; a losing update changes neither
\* the store nor any in-memory node; the stored version never changes in
\* any other way; of two updates started from the same stored version
\* exactly one succeeds.
C6_NodeUpdateCheckAndSet ==
    [][/\ \A c \in Callers : NodeCompletes(c) =>
            LET p == node_params[c]
                o == node_obj[c]
            IN  /\ node_pc'[c] = "updated" <=> node_store.version = p.current_version
                /\ node_pc'[c] = "updated" =>
                    /\ node_store'.version = node_store.version + 1
                    /\ node_store'.properties = p.properties
                    /\ node_mem'[o].version = node_mem[o].version + 1
                    /\ node_mem'[o].properties = p.properties
                /\ node_pc'[c] = "conflict" =>
                    /\ node_store' = node_store
                    /\ node_mem' = node_mem
       /\ node_store' # node_store =>
            \E c \in Callers : NodeCompletes(c) /\ node_pc'[c] = "updated"
       /\ NodeRaceOver(node_pc', node_params') =>
            Cardinality({c \in Callers : node_pc'[c] = "updated"}) = 1]_vars

\* C6 witness: two callers holding separate copies updated concurrently from
\* version 1; one succeeded and the store is at version 2, the other got a
\* conflict and its copy is still at version 1
C6_Witness ==
    /\ node_obj["c1"] # node_obj["c2"]
    /\ \A c \in Callers : node_params[c].current_version = 1
                            /\ node_params[c].stored_at_call = 1
    /\ \E c \in Callers :
        /\ node_pc[c] = "conflict"
        /\ node_mem[node_obj[c]] = NodeInitial
    /\ \E c \in Callers : node_pc[c] = "updated"
    /\ node_store.version = 2

\* caller c's Relationship.update query completes with a result in this step
RelCompletes(c) == rel_pc[c] = "awaiting" /\ rel_pc'[c] = "updated"

\* C7: a relationship update is applied only when the stored version is the
\* version the call was made with, and then raises the stored version by
\* one; the stored relationship changes in no other way.
C7_RelUpdateCheckAndSet ==
    [][/\ \A c \in Callers : RelCompletes(c) =>
            /\ rel_store.version = rel_params[c].version
            /\ rel_store'.version = rel_store.version + 1
       /\ rel_store' # rel_store => \E c \in Callers : RelCompletes(c)]_vars

Reachable == Ball(store_rels, gen.artwork_id, gen.depth)

\* C12: when more than MAX_GRAPH_SIZE nodes lie within the requested depth,
\* the returned graph is flagged truncated and holds at most MAX_GRAPH_SIZE
\* nodes; a graph that lacks some of those nodes always carries the flag.
C12_TruncationFlagged ==
    gen.pc = "returned" =>
        /\ Cardinality(Reachable) > MAX_GRAPH_SIZE =>
            /\ gen.result.truncated
            /\ Len(gen.result.nodes) <= MAX_GRAPH_SIZE
        /\ NodeSet(gen.result) # Reachable => gen.result.truncated

\* the stored relationships with an end within k hops of root
FoundWithin(rels, root, k) ==
    IF k < 0
    THEN {}
    ELSE {r \in rels : r.source_node \in Ball(rels, root, k)
                        \/ r.target_node \in Ball(rels, root, k)}

\* C13: when no more than MAX_GRAPH_SIZE nodes lie within the requested
\* depth d of the root, the returned graph holds exactly the nodes within d
\* hops and exactly the relationships of the nodes within d - 1 hops: the
\* root alone and no relationship at depth 0, and nodes U1, U2, U3 with the
\* two relationships of U1 at depth 1 on the CREATED_BY/BELONGS_TO scenario.
C13_ExactSubgraph ==
    (gen.pc = "returned" /\ Cardinality(Reachable) <= MAX_GRAPH_SIZE) =>
        /\ NodeSet(gen.result) = Reachable
        /\ gen.result.relationships
            = FoundWithin(store_rels, gen.artwork_id, gen.depth - 1)
        /\ gen.depth = 0 =>
            /\ gen.result.nodes = <<gen.artwork_id>>
            /\ gen.result.relationships = {}
        /\ (gen.depth = 1 /\ store_rels = ScenarioStore) =>
            /\ NodeSet(gen.result) = {"U1", "U2", "U3"}
            /\ gen.result.relationships
                = {Rel("R1", "U1", "U2"), Rel("R2", "U1", "U3")}

\* C13 witness: the scenario's graph was generated at depth 1, and another
\* graph of the same store at depth 0
C13_Witness ==
    /\ store_rels = ScenarioStore
    /\ gen.pc = "returned" /\ ~gen.from_cache /\ gen.depth = 1
    /\ Cardinality(gen.result.relationships) = 2
    /\ gen_prev.depth = 0 /\ gen_prev.result.nodes = <<"U1">>

\* C14: a request whose depth exceeds the configured maximum is rejected
\* before any store query is executed, returns no graph and leaves no
\* cache entry.
C14_DepthRejected ==
    /\ (gen.pc # "idle" /\ gen.depth > max_depth) =>
        (~gen.queried /\ gen.pc # "returned")
    /\ \A a \in ArtworkIds, d \in Depths, o \in OptionSets :
        d > max_depth => gen_cache[CacheKey(a, d, o)] = NoEntry

\* graph is what whole rounds of expansion from a stored root give: the
\* nodes within k hops and the relationships of the nodes within k - 1 hops,
\* for some k up to depth
WholeLevels(graph, root, depth) ==
    /\ root \in StoreNodes
    /\ \E k \in 0..depth :
        /\ NodeSet(graph) = Ball(store_rels, root, k)
        /\ graph.relationships = FoundWithin(store_rels, root, k - 1)

GenFailed == {"retry_wait", "retry_error"}

\* C15: an attempt that fails hands back no graph and leaves the cache as it
\* was; every graph returned and every graph written to the cache was built
\* by whole rounds of expansion from a stored root, never cut off by an error.
C15_NoPartialResult ==
    [][/\ gen'.pc \in GenFailed => gen'.result = NoGraph
       /\ (gen.pc \notin GenFailed /\ gen'.pc \in GenFailed) =>
            gen_cache' = gen_cache
       /\ GenReturns =>
            WholeLevels(gen'.result, gen'.artwork_id, gen'.depth)
       /\ \A a \in ArtworkIds, d \in Depths, o \in OptionSets :
            LET entry == gen_cache'[CacheKey(a, d, o)]
            IN  entry \notin {NoEntry, gen_cache[CacheKey(a, d, o)]}
                    => WholeLevels(entry, a, d)]_vars

\* C15 witness: a request for a stored artwork at depth 2 has failed for
\* good after store queries were made, and nothing is cached under its key
C15_Witness ==
    /\ gen.pc = "retry_error" /\ gen.artwork_id = "U1" /\ gen.depth = 2
    /\ gen.queried /\ gen.attempt = GEN_MAX_RETRY_ATTEMPTS
    /\ GenEntry = NoEntry
    /\ gen_failure_count = GEN_MAX_RETRY_ATTEMPTS

(***************************************************************************)
(* Properties of Neo4jConnection.                                          *)
(***************************************************************************)
\* the step in which caller c's execute_query returns or raises
NeoLeaves(c) == neo[c].pc \notin NeoAtRest /\ neo'[c].pc \in NeoAtRest

\* the step in which the with block of caller c's attempt is left
NeoSessionExit(c) == neo[c].pc = "session" /\ neo'[c].pc # "session"

NeoExhausted(c) ==
    /\ neo[c].pc = "raised"
    /\ neo[c].retries >= 1
    /\ Len(neo[c].slept) = neo[c].retries

\* the part of C17 that is about counting: after the capped number of
\* attempts, each followed by a wait of min(2^attempt, 30) seconds, the
\* call ends
NeoAttemptsCapped ==
    \A c \in Callers :
        /\ neo[c].attempt < neo[c].retries \/ neo[c].pc \in NeoAtRest
        /\ Len(neo[c].slept) <= neo[c].retries
        /\ NeoExhausted(c) =>
            /\ neo[c].attempt + 1 = neo[c].retries
            /\ \A i \in 1..Len(neo[c].slept) :
                   neo[c].slept[i] =
                       IF 2 ^ (i - 1) < 30 THEN 2 ^ (i - 1) ELSE 30

\* C17: when every attempt of execute_query fails with a transient error,
\* the call makes exactly the capped number of attempts, waits
\* min(2^attempt, 30) seconds after each, and then ends by raising
\* ServiceUnavailable.
C17_ExhaustedRaisesServiceUnavailable ==
    /\ NeoAttemptsCapped
    /\ \A c \in Callers :
           NeoExhausted(c) => neo[c].error = "ServiceUnavailable"

(***************************************************************************)
(* Properties of GraphGenerator's error handling.                          *)
(***************************************************************************)
\* C18: only transient store failures are retried: once the body of
\* generate_artwork_graph has raised ValueError (artwork not found) the
\* call is over, the body is not run again.
C18_ValueErrorNotRetried ==
    gen.error = "ValueError" => gen.pc \in GenAtRest

(***************************************************************************)
(* Properties of CacheManager's error handling.                            *)
(***************************************************************************)
\* C19: get_cached_data never surfaces an error to its caller: a miss, a
\* failing store and an open breaker are all answered as a miss, so no
\* call of get_cached_data ends with an exception (tenacity's RetryError
\* after the last raised attempt is the only way it can).
C19_GetNeverRaises ==
    \A c \in Callers : cache_pc[c] # "retry_error"

(***************************************************************************)
(* GraphGenerator and the health of its cache.                             *)
(***************************************************************************)
\* C20: the outcome of generate_artwork_graph does not depend on cache
\* health.  The cache read either hands back the stored graph or, when it
\* raises as when it finds nothing, leaves the call where a miss leaves it;
\* the cache write, raising or not, is followed by the return of the
\* generated graph.  Neither step raises to the caller or adds to the
\* failure count.
C20_CacheHealthIgnored ==
    [][ /\ gen.pc = "cache_get" =>
            \/ /\ GenEntry # NoEntry
               /\ gen'.pc = "returned"
               /\ gen'.from_cache
               /\ gen'.result = GenEntry
               /\ gen_failure_count' = 0
            \/ /\ gen' = [gen EXCEPT !.pc = "root_check"]
               /\ gen_failure_count' = gen_failure_count
               /\ gen_cache' = gen_cache
        /\ gen.pc = "cache_set" =>
            /\ gen'.pc = "returned"
            /\ ~gen'.from_cache
            /\ gen'.result = gen.result
            /\ gen'.error = "none"
            /\ gen_failure_count' = 0
      ]_vars

\* the cache holds a graph for the request, the read of it raised, and the
\* call has gone on to the root lookup as on a miss
C20_Witness ==
    /\ gen.pc = "root_check"
    /\ GenEntry # NoEntry
    /\ gen.attempt = 1

\* C21: set_cached_data with a value over the maximum size is rejected
\* with ValueError and nothing is written: the call never gets as far as
\* the client's set, and it never ends as a completed write.
C21_OversizedRejected ==
    \A c \in Callers :
        (cache_req[c].op = "set" /\ cache_req[c].oversized) =>
            cache_pc[c] # "awaiting_set"

(***************************************************************************)
(* Properties of the graph algorithms.                                     *)
(***************************************************************************)
\* C22: a centrality, similarity or community call whose algorithm or
\* metric name is not on its list fails with ValueError before the store
\* query is executed, and hands back no result.  (The three functions keep
\* no cache, so there is no cache entry a call could create or change.)
C22_InvalidNameRejected ==
    (algo.pc # "idle" /\ algo.name \notin AllowList(algo.fn)) =>
        /\ algo.pc = "raised"
        /\ algo.error = "ValueError"
        /\ ~algo.queried
        /\ algo.result = <<>>

\* a second call, of detect_communities, was rejected for its name
C22_Witness ==
    /\ algo_calls = 2
    /\ algo.pc = "raised"
    /\ algo.fn = "detect_communities"
    /\ algo.name \notin COMMUNITY_ALGORITHMS

\* find_similar_artworks has returned its list for metric jaccard
SimilarReturned ==
    /\ algo.pc = "returned"
    /\ algo.fn = "find_similar_artworks"
    /\ algo.name = "jaccard"

\* C23: for metric jaccard the score reported for each candidate is
\* |N(source) /\ N(candidate)| / |N(source) \/ N(candidate)| over the two
\* artworks' neighbour-id sets; with shared neighbours X, Y out of X, Y, Z
\* it is 2/3.
C23_JaccardScore ==
    SimilarReturned =>
        \A i \in 1..Len(algo.result) :
            LET score == algo.result[i].similarity_score
                source == algo_store[algo.artwork_id]
                candidate == algo_store[algo.result[i].artwork_id]
            IN  /\ score.den # 0
                /\ score.num * Cardinality(source \cup candidate) =
                       Cardinality(source \cap candidate) * score.den
                /\ (/\ source \cap candidate = {"X", "Y"}
                    /\ source \cup candidate = {"X", "Y", "Z"})
                       => score.num * 3 = 2 * score.den

\* in the scenario store, B is reported for A with score 2/3
C23_Witness ==
    /\ SimilarReturned
    /\ algo_store = SimilarityScenario
    /\ algo.artwork_id = "A"
    /\ \E i \in 1..Len(algo.result) :
        /\ algo.result[i].artwork_id = "B"
        /\ algo.result[i].similarity_score = [num |-> 2, den |-> 3]

\* C24: every artwork find_similar_artworks returns shares at least one
\* neighbour with the source artwork, whatever the limit.
C24_SharesNeighbour ==
    SimilarReturned =>
        \A i \in 1..Len(algo.result) :
            algo_store[algo.artwork_id]
                \cap algo_store[algo.result[i].artwork_id] # {}

(***************************************************************************)
(* Properties of a Relationship's creation and audit trail.                *)
(***************************************************************************)
\* C25: every relationship create() writes to the store has a source node
\* different from its target node and holds every property required for
\* its type, also when its property map is empty; a violating relationship
\* is not written.
C25_CreatedSatisfyInvariant ==
    \A r \in life_store :
        /\ r.source_node # r.target_node
        /\ RequiredFor(r.type) \subseteq DOMAIN r.properties

\* the step in which a create, update or delete call returns normally
LifeSucceeds ==
    \E c \in Callers : life_pc[c] = "awaiting" /\ life_pc'[c] = "updated"

\* C28: the audit trail is append-only: no step removes, reorders or
\* changes an entry; a call that succeeds appends exactly one entry and a
\* call that fails (store error, version mismatch, invalid properties)
\* appends none.
C28_AuditAppendOnly ==
    [][ LET old == life_rel.audit_trail
            new == life_rel'.audit_trail
        IN  /\ Len(new) >= Len(old)
            /\ SubSeq(new, 1, Len(old)) = old
            /\ Len(new) = Len(old) + (IF LifeSucceeds THEN 1 ELSE 0)
      ]_vars

\* a create and an update are on the trail and a later call has failed
C28_Witness ==
    /\ Len(life_rel.audit_trail) = 2
    /\ life_rel.audit_trail[1].action = "create"
    /\ life_rel.audit_trail[2].action = "update"
    /\ life_calls = 3
    /\ \E c \in Callers : life_pc[c] \in {"conflict", "error"}

(***************************************************************************)
(* Properties of the level loop of _generate_graph_parallel.               *)
(***************************************************************************)
\* the nodes still to be expanded in the level under way
Pending ==
    UNION {Range(gen.chunks[i]) : i \in 1..Len(gen.chunks)}

\* C26: the levels follow one another: the level number changes only when
\* every batch of the level under way has ended and been merged, and then
\* by one; the nodes a level expands are those held when it began (all
\* within as many hops of the root as the level's number), so a node found
\* by one batch during a level is not expanded before the next level.
C26_LevelsSequential ==
    [][ /\ (gen.pc = "batches" /\ gen'.pc = "batches"
                /\ gen'.level # gen.level) =>
              /\ Pending = {}
              /\ gen'.level = gen.level + 1
        /\ (gen.pc = "batches" /\ gen'.pc = "cache_set") => Pending = {}
        /\ gen'.pc = "batches" =>
              LET P == UNION {Range(gen'.chunks[i]) :
                                 i \in 1..Len(gen'.chunks)}
              IN  P \subseteq
                      Ball(store_rels, gen'.artwork_id, gen'.level)
      ]_vars

\* two batches of level 1 ran at once: the second has ended and merged a
\* node it found while the first has expanded one of its two nodes
C26_Witness ==
    /\ gen.pc = "batches"
    /\ gen.level = 1
    /\ Len(gen.chunks) = 2
    /\ Len(gen.chunks[1]) = 1
    /\ gen.chunks[2] = <<>>
    /\ Len(gen.nodes) > MAX_GRAPH_SIZE

\* C27: whatever the order in which the batches of a level ran and
\* completed, at the end of the level the node-uuid set is the set of nodes
\* within level + 1 hops of the root and the relationship set is the set of
\* relationships of the nodes within level hops.
C27_MergeOrderIndependent ==
    (gen.pc = "batches" /\ Pending = {}) =>
        /\ Range(gen.nodes) = Ball(store_rels, gen.artwork_id, gen.level + 1)
        /\ gen.relationships =
               FoundWithin(store_rels, gen.artwork_id, gen.level)

\* level 1 of the fork has ended with U4 merged before U5: the batch
\* holding U3 completed before the batch holding U2
C27_Witness ==
    /\ gen.pc = "batches"
    /\ Pending = {}
    /\ gen.level = 1
    /\ store_rels = ForkStore
    /\ \E i, j \in 1..Len(gen.nodes) :
        i < j /\ gen.nodes[i] = "U4" /\ gen.nodes[j] = "U5"

(***************************************************************************)
(* Properties of Artwork.update_metadata.                                  *)
(***************************************************************************)
\* C29: when update_metadata fails, the in-memory artwork is as it was
\* before the call (properties version and metadata, checksum, modified_by
\* and node version), so between calls properties["version"] equals the
\* node version.
C29_FailedUpdateLeavesArtwork ==
    \A c \in Callers :
        /\ art_pc[c] \in {"invalid", "conflict", "error"} =>
               art_mem[c] = art_params[c].before
        /\ art_pc[c] \in EntityAtRest =>
               art_mem[c].properties.version = art_mem[c].version

(***************************************************************************)
(* Properties of RedisClient's rate limiter.                               *)
(***************************************************************************)
\* C30: a RedisClient call refused by the per-request-id rate limiter is
\* not recorded as a dependency failure: the refusal leaves the breaker's
\* failure count as it was and does not open the breaker, so it cannot make
\* calls of other request ids fail fast.
C30_RateLimitNotAFailure ==
    [][\A c \in Callers :
        (redis_pc[c] = "called" /\ redis_pc'[c] = "rate_limited")
          => /\ redis_cb'.failures = redis_cb.failures
             /\ redis_cb'.is_open => redis_cb.is_open
      ]_vars

====
